---- MODULE Spec2Model ----
(***************************************************************************)
(* State-machine model of the DODGE game main loop (src/dodge_game.py).    *)
(*                                                                         *)
(* Units.  Python floats are modelled by scaled integers:                  *)
(*   - times (time.monotonic(), LEVEL_DATA, HIT_COOLDOWN) in 1/64 second;  *)
(*   - the claw's vertical offset and speed in 1/20 pixel, so that         *)
(*     3, 3.4, 3.8 and 0.25 are the integers 60, 68, 76 and 5;             *)
(*   - accelerometer / aim samples in 1/10 m/s^2.                          *)
(* Pixel coordinates (player_x, claw x, label y) are plain integers, as in *)
(* the source.  int(.) of the source truncates toward zero (int_px,        *)
(* int_q).  On the grids used here the exact arithmetic agrees with the    *)
(* IEEE doubles of the source wherever the source takes a decision (the    *)
(* hit window, the respawn test, the integer step of the player).          *)
(*                                                                         *)
(* One iteration of `while True:` is MenuTick (the menu branch ending in   *)
(* `continue`), or PlayTick followed by ScreenTick (the part of the        *)
(* iteration before and after the line "HIGH SCORE AND MENU HANDLING");    *)
(* pc records which part runs next.                                        *)
(***************************************************************************)
EXTENDS Integers, Sequences, FiniteSets, TLC

----------------------------------------------------------------------------
(* CONFIG (src/dodge_game.py lines 47-99, 631-635)                         *)

SCREEN_WIDTH == 128
CLAW_WIDTH == 40
CLAW_Y3_BASE == 22
\* 3 px per tick, in 1/20 px
INITIAL_CLAW_SPEED == 60
\* 0.25 px per tick per level, in 1/20 px
CLAW_SPEED_STEP == 5
\* -10 px, in 1/20 px
CLAW_RESET_Y == -200
DROP_STEPS == 10
DROP_STEP_PIXELS == 3
\* -9.0 and 9.0 m/s^2, in 1/10 m/s^2
ACCEL_MIN == -90
ACCEL_MAX == 90
PLAYER_WIDTH == 8
PLAYER_Y == 52
\* seconds to survive per level (3, 5, 7, 10, 13, 15, 17, 15, 13, 10), in 1/64 s
LEVEL_DATA == <<192, 320, 448, 640, 832, 960, 1088, 960, 832, 640>>
DIFFICULTY_OPTIONS == <<"EASY", "MEDIUM", "HARD", "MULTIPLAYER">>
\* 0.5 s, in 1/64 s
HIT_COOLDOWN == 32
\* the y given to the claw labels when they are hidden
HIDDEN_Y == -100
\* ord('A'), ord('Z')
ORD_A == 65
ORD_Z == 90

----------------------------------------------------------------------------
(* Bounds of the model (not program constants)                             *)

\* the monotonic clock is followed up to this value (1/64 s)
MaxClock == 580
\* ticks keep running while score <= MaxScore
MaxScore == 2
\* encoder detents followed during one entry of initials
MaxTurns == 3
\* sessions started from the menu in one run
MaxSessions == 2
\* lines the UART holds when process_uart is called (SpecDrain)
MaxLines == 2
\* lines of the high-score file met at startup (SpecLoad)
MaxFileLines == 4

\* last clock value followed when the player tilts the board (SpecMove)
MoveHorizon == 352
\* last clock value followed when the ticks come unevenly (SpecJitter)
JitterHorizon == 440
\* a tick delayed by more than HIT_COOLDOWN (SpecJitter)
LateDt == 36
\* encoder detents followed during one entry of initials in SpecRounds
\* and SpecLink
RoundsTurns == 1
\* last clock value followed while the opponent aims and fires (SpecLink)
LinkHorizon == 440
\* last clock value followed while the opponent fires over two sessions (SpecFire)
FireHorizon == 540
\* last clock value followed when the ticks come 1/64 s apart (SpecPass)
PassHorizon == 372
\* last clock value and highest score followed through the ten levels
\* (SpecLevels): 108 s of play after the 5 s of calibration
LevelsHorizon == 7300
LevelsScore == 130

----------------------------------------------------------------------------
(* Arithmetic of the source                                                *)

\* int(n/d) of Python for d > 0: truncation toward zero
int_q(n, d) == IF n >= 0 THEN n \div d ELSE -((-n) \div d)

\* int(offset) for an offset held in 1/20 px
int_px(v) == int_q(v, 20)

\* map_range without the upper clamp of x
map_range_NoUpperClamp(x, in_min, in_max, out_min, out_max) ==
    IF in_min = in_max THEN <<out_min, 1>>
    ELSE LET x1 == IF x < in_min THEN in_min ELSE x
         IN  <<out_min * (in_max - in_min) + (out_max - out_min) * (x1 - in_min),
               in_max - in_min>>

\* map_range as the exact fraction <<numerator, denominator>>; the source
\* returns out_min undivided when in_min = in_max
map_range(x, in_min, in_max, out_min, out_max) ==
    IF in_min = in_max THEN <<out_min, 1>>
    ELSE LET x1 == IF x < in_min THEN in_min ELSE x
             x2 == IF x1 > in_max THEN in_max ELSE x1
         IN  <<out_min * (in_max - in_min) + (out_max - out_min) * (x2 - in_min),
               in_max - in_min>>

----------------------------------------------------------------------------
(* High Score System (src/dodge_game.py lines 645-751)                      *)

\* a record of the board is <<initials, score>>, initials a tuple of ord values
AAA == <<ORD_A, ORD_A, ORD_A>>

RECURSIVE InsertDesc(_, _)
\* insert e behind every element whose score is >= e's (stable, descending)
InsertDesc(sorted, e) ==
    IF sorted = <<>> THEN <<e>>
    ELSE IF Head(sorted)[2] >= e[2]
         THEN <<Head(sorted)>> \o InsertDesc(Tail(sorted), e)
         ELSE <<e>> \o sorted

RECURSIVE SortDesc(_)
\* list.sort(key=lambda x: x[1], reverse=True): stable, descending by score
SortDesc(hs) ==
    IF hs = <<>> THEN <<>>
    ELSE InsertDesc(SortDesc(SubSeq(hs, 1, Len(hs) - 1)), hs[Len(hs)])

\* hs[:3]
Top3(hs) == IF Len(hs) > 3 THEN SubSeq(hs, 1, 3) ELSE hs

\* The file as load_high_scores meets it: exists says whether open()
\* succeeds, lines holds its lines.  A line of kind "rec" has two
\* comma-separated parts, the second an integer; "skip" is blank or has not
\* exactly two parts (it is passed over); "badint" has a second part that
\* int() rejects (ValueError, caught by the bare except).
RECURSIVE ParseLines(_)
ParseLines(lines) ==
    IF lines = <<>> THEN <<>>
    ELSE IF Head(lines).kind = "rec"
         THEN <<<<Head(lines).initials, Head(lines).score>>>> \o ParseLines(Tail(lines))
         ELSE ParseLines(Tail(lines))

FileRaises(file) ==
    \/ ~file.exists
    \/ \E i \in 1..Len(file.lines) : file.lines[i].kind = "badint"

\* load_high_scores leaving the board empty when the file fails
load_high_scores_EmptyOnError(file) ==
    IF FileRaises(file)
    THEN <<>>
    ELSE Top3(SortDesc(ParseLines(file.lines)))

\* lines 657-697
load_high_scores(file) ==
    IF FileRaises(file)
    THEN <<<<AAA, 0>>, <<AAA, 0>>, <<AAA, 0>>>>
    ELSE Top3(SortDesc(ParseLines(file.lines)))

\* is_high_score admitting a tie with the lowest entry
is_high_score_Tie(hs, score_val) ==
    IF Len(hs) < 3 THEN TRUE
    ELSE score_val >= hs[Len(hs)][2]

is_high_score(hs, score_val) ==
    IF Len(hs) < 3 THEN TRUE
    ELSE score_val > hs[Len(hs)][2]

\* add_high_score without the sort
add_high_score_Unsorted(hs, initials, score_val) ==
    Top3(Append(hs, <<initials, score_val>>))

\* add_high_score without the [:3]
add_high_score_Untrimmed(hs, initials, score_val) ==
    SortDesc(Append(hs, <<initials, score_val>>))

\* add_high_score keeping two records
add_high_score_KeepTwo(hs, initials, score_val) ==
    LET s == SortDesc(Append(hs, <<initials, score_val>>))
    IN  IF Len(s) > 2 THEN SubSeq(s, 1, 2) ELSE s

\* lines 739-751

add_high_score(hs, initials, score_val) ==
    Top3(SortDesc(Append(hs, <<initials, score_val>>)))

----------------------------------------------------------------------------
(* State: the module-level globals of src/dodge_game.py                    *)

VARIABLES
    pc,                 \* "sample": at the top of the loop; "screens": before HIGH SCORE AND MENU HANDLING
    clock,              \* last reading of time.monotonic(), in 1/64 s
    last_btn_state,     \* line 173
    rot_last_state,     \* line 185
    button_pressed,     \* the iteration's local of line 1473
    in_menu, menu_index, difficulty, current_level_index,
    level_time_target, level_start_time, game_state, lives, score,
    claw_y_offset,      \* in 1/20 px
    claw_speed,         \* in 1/20 px per tick
    claw_has_hit, last_hit_time,
    claw_x,             \* claw_line1.x = claw_line2.x = claw_line3.x
    claw_line3_y,       \* claw_line3.y
    player_x,
    uart,               \* TRUE iff a UART object is held
    multiplayer_active, opponent_aim_raw, fire_flag, last_player_x,
    high_scores, entering_initials, initial_index, current_initials,
    message_label,      \* message_label.text as [text, arg]
    pass_hits,          \* history: lives taken since the last reset_claw_spawn
    turns,              \* history: encoder detents since show_initial_entry
    sessions,           \* history: sessions started from the menu
    records_added,      \* history: add_high_score calls since the session started
    rx,                 \* history: what the UART held when this iteration called process_uart
    uart_reads,         \* history: uart.readline() calls of this iteration
    tx,                 \* history: "sent" / "failed" when this iteration called uart.write, else "none"
    last_sent,          \* history: the position in the last P message written, -1 before the first
    drops,              \* history: drops started by drop_claw_multiplayer in this iteration
    pass_overlap,       \* history: check_collision held at a tick since the last reset_claw_spawn
    hs_file,            \* history: the file load_high_scores met at startup
    pass_window         \* history: claw_line3.y lay in the hit window at a tick since the last reset_claw_spawn

vars == <<pc, clock, last_btn_state, rot_last_state, button_pressed,
          in_menu, menu_index, difficulty, current_level_index,
          level_time_target, level_start_time, game_state, lives, score,
          claw_y_offset, claw_speed, claw_has_hit, last_hit_time,
          claw_x, claw_line3_y, player_x,
          uart, multiplayer_active, opponent_aim_raw, fire_flag, last_player_x,
          high_scores, entering_initials, initial_index, current_initials,
          message_label, pass_hits, turns, sessions, records_added,
          rx, uart_reads, tx, last_sent, drops, pass_overlap, hs_file,
          pass_window>>

\* the globals as one record, threaded through the statements of an iteration
G == [pc |-> pc, clock |-> clock, last_btn_state |-> last_btn_state,
      rot_last_state |-> rot_last_state, button_pressed |-> button_pressed,
      in_menu |-> in_menu, menu_index |-> menu_index, difficulty |-> difficulty,
      current_level_index |-> current_level_index,
      level_time_target |-> level_time_target,
      level_start_time |-> level_start_time, game_state |-> game_state,
      lives |-> lives, score |-> score, claw_y_offset |-> claw_y_offset,
      claw_speed |-> claw_speed, claw_has_hit |-> claw_has_hit,
      last_hit_time |-> last_hit_time, claw_x |-> claw_x,
      claw_line3_y |-> claw_line3_y, player_x |-> player_x, uart |-> uart,
      multiplayer_active |-> multiplayer_active,
      opponent_aim_raw |-> opponent_aim_raw, fire_flag |-> fire_flag,
      last_player_x |-> last_player_x, high_scores |-> high_scores,
      entering_initials |-> entering_initials, initial_index |-> initial_index,
      current_initials |-> current_initials, message_label |-> message_label,
      pass_hits |-> pass_hits, turns |-> turns, sessions |-> sessions,
      records_added |-> records_added, rx |-> rx, uart_reads |-> uart_reads,
      tx |-> tx, last_sent |-> last_sent, drops |-> drops,
      pass_overlap |-> pass_overlap, hs_file |-> hs_file,
      pass_window |-> pass_window]

\* the globals after the iteration
Commit(g) ==
    /\ pc' = g.pc /\ clock' = g.clock /\ last_btn_state' = g.last_btn_state
    /\ rot_last_state' = g.rot_last_state /\ button_pressed' = g.button_pressed
    /\ in_menu' = g.in_menu /\ menu_index' = g.menu_index
    /\ difficulty' = g.difficulty
    /\ current_level_index' = g.current_level_index
    /\ level_time_target' = g.level_time_target
    /\ level_start_time' = g.level_start_time /\ game_state' = g.game_state
    /\ lives' = g.lives /\ score' = g.score
    /\ claw_y_offset' = g.claw_y_offset /\ claw_speed' = g.claw_speed
    /\ claw_has_hit' = g.claw_has_hit /\ last_hit_time' = g.last_hit_time
    /\ claw_x' = g.claw_x /\ claw_line3_y' = g.claw_line3_y
    /\ player_x' = g.player_x /\ uart' = g.uart
    /\ multiplayer_active' = g.multiplayer_active
    /\ opponent_aim_raw' = g.opponent_aim_raw /\ fire_flag' = g.fire_flag
    /\ last_player_x' = g.last_player_x /\ high_scores' = g.high_scores
    /\ entering_initials' = g.entering_initials
    /\ initial_index' = g.initial_index
    /\ current_initials' = g.current_initials
    /\ message_label' = g.message_label /\ pass_hits' = g.pass_hits
    /\ turns' = g.turns /\ sessions' = g.sessions
    /\ records_added' = g.records_added
    /\ rx' = g.rx /\ uart_reads' = g.uart_reads /\ tx' = g.tx
    /\ last_sent' = g.last_sent /\ drops' = g.drops
    /\ pass_overlap' = g.pass_overlap /\ hs_file' = g.hs_file
    /\ pass_window' = g.pass_window

\* message_label.text values
Msg(text, arg) == [text |-> text, arg |-> arg]
NoMsg == Msg("", 0)

----------------------------------------------------------------------------
(* Claw, UART and game start functions                                     *)

\* set_claw_y(offset), offset in pixels (lines 427-433)
set_claw_y(g, offset) == [g EXCEPT !.claw_line3_y = CLAW_Y3_BASE + offset]

\* lines 469-491; ok = FALSE when busio.UART raises
init_multiplayer_uart(g, ok) ==
    IF ok
    THEN [g EXCEPT !.uart = TRUE, !.multiplayer_active = TRUE,
                   !.opponent_aim_raw = [nan |-> FALSE, v |-> 0],
                   !.fire_flag = FALSE]
    ELSE [g EXCEPT !.uart = FALSE, !.multiplayer_active = FALSE]

\* lines 495-511
deinit_multiplayer_uart(g) ==
    [g EXCEPT !.uart = FALSE, !.multiplayer_active = FALSE]

\* lines 795-819; x is the value random.randint(-10, SCREEN_WIDTH - CLAW_WIDTH + 10) returns
reset_claw_spawn(g, random_x, x) ==
    [g EXCEPT !.claw_y_offset = CLAW_RESET_Y,
              !.claw_has_hit = FALSE,
              !.claw_x = IF random_x THEN x ELSE (SCREEN_WIDTH - CLAW_WIDTH) \div 2,
              !.pass_hits = 0, !.pass_overlap = FALSE, !.pass_window = FALSE]

\* the shared part of the single-player starts without lives = 3
StartSingle_KeepLives(g, name, speed, x) ==
    LET g1 == [g EXCEPT !.difficulty = name, !.current_level_index = 0,
                        !.level_start_time = g.clock,
                        !.game_state = "PLAYING", !.score = 0]
        g2 == reset_claw_spawn(g1, TRUE, x)
    IN  deinit_multiplayer_uart([g2 EXCEPT !.claw_speed = speed])


\* the part start_easy, start_medium and start_hard share (lines 823-903)
StartSingle(g, name, speed, x) ==
    LET g1 == [g EXCEPT !.difficulty = name, !.current_level_index = 0,
                        !.level_start_time = g.clock,
                        !.game_state = "PLAYING", !.lives = 3, !.score = 0]
        g2 == reset_claw_spawn(g1, TRUE, x)
    IN  deinit_multiplayer_uart([g2 EXCEPT !.claw_speed = speed])

start_easy(g, x) == StartSingle(g, "EASY", INITIAL_CLAW_SPEED, x)

\* INITIAL_CLAW_SPEED + 0.4
start_medium(g, x) == StartSingle(g, "MEDIUM", INITIAL_CLAW_SPEED + 8, x)

\* INITIAL_CLAW_SPEED + 0.8
start_hard(g, x) == StartSingle(g, "HARD", INITIAL_CLAW_SPEED + 16, x)

\* lines 907-945.  level_time_target is not among the function's globals:
\* the assignment of line 917 binds a local and the global keeps its value.
start_multiplayer(g, ok) ==
    LET g1 == [g EXCEPT !.difficulty = "MULTIPLAYER", !.current_level_index = 0,
                        !.level_start_time = g.clock,
                        !.game_state = "PLAYING", !.lives = 3, !.score = 0,
                        !.claw_y_offset = CLAW_RESET_Y,
                        !.claw_x = (SCREEN_WIDTH - CLAW_WIDTH) \div 2]
    IN  init_multiplayer_uart(set_claw_y(g1, int_px(CLAW_RESET_Y)), ok)

\* start_level_same_difficulty multiplying the speed by the level number
start_level_same_difficulty_Multiplied(g, x) ==
    LET g1 == [g EXCEPT !.level_start_time = g.clock]
    IN  IF g1.difficulty # "MULTIPLAYER"
        THEN [reset_claw_spawn(g1, TRUE, x) EXCEPT
                 !.claw_speed = INITIAL_CLAW_SPEED
                                * (g1.current_level_index + 1)]
        ELSE g1

\* lines 949-959
start_level_same_difficulty(g, x) ==
    LET g1 == [g EXCEPT !.level_start_time = g.clock]
    IN  IF g1.difficulty # "MULTIPLAYER"
        THEN [reset_claw_spawn(g1, TRUE, x) EXCEPT
                 !.claw_speed = INITIAL_CLAW_SPEED
                                + CLAW_SPEED_STEP * g1.current_level_index]
        ELSE g1

\* show_menu without deinit_multiplayer_uart
show_menu_KeepLink(g) ==
    LET g1 == [g EXCEPT !.in_menu = TRUE,
                        !.message_label = Msg("< >", g.menu_index)]
        g2 == set_claw_y(reset_claw_spawn(g1, FALSE, 0), int_px(CLAW_RESET_Y))
    IN  [g2 EXCEPT !.claw_line3_y = HIDDEN_Y]


\* lines 1165-1201
show_menu(g) ==
    LET g1 == [g EXCEPT !.in_menu = TRUE,
                        !.message_label = Msg("< >", g.menu_index)]
        g2 == set_claw_y(reset_claw_spawn(g1, FALSE, 0), int_px(CLAW_RESET_Y))
    IN  deinit_multiplayer_uart([g2 EXCEPT !.claw_line3_y = HIDDEN_Y])

\* lines 1205-1253: of the model's state only message_label and the claw's y
show_high_scores(g) ==
    [g EXCEPT !.message_label = NoMsg, !.claw_line3_y = HIDDEN_Y]

\* lines 1257-1299
show_initial_entry(g) ==
    [g EXCEPT !.entering_initials = TRUE, !.initial_index = 0,
              !.current_initials = AAA, !.message_label = NoMsg,
              !.claw_line3_y = HIDDEN_Y, !.turns = 0]

\* the vertical test of line 1359: claw_line3.y within the hit window
InHitWindow(g) ==
    g.claw_line3_y >= PLAYER_Y - 2 /\ g.claw_line3_y <= PLAYER_Y + 4

\* check_collision without the caught-between case
check_collision_GrabbersOnly(g) ==
    LET left_grabber_x == g.claw_x + (2 * 6) + 2
        right_grabber_x == g.claw_x + (5 * 6) + 2
        grabber_width == 2
        player_center == g.player_x + PLAYER_WIDTH \div 2
        player_radius == 3
        claw_bottom == g.claw_line3_y
    IN  /\ claw_bottom >= PLAYER_Y - 2
        /\ claw_bottom <= PLAYER_Y + 4
        /\ \/ /\ player_center >= left_grabber_x - player_radius
              /\ player_center <= left_grabber_x + grabber_width + player_radius
           \/ /\ player_center >= right_grabber_x - player_radius
              /\ player_center <= right_grabber_x + grabber_width + player_radius

\* lines 1343-1374
check_collision(g) ==
    LET left_grabber_x == g.claw_x + (2 * 6) + 2
        right_grabber_x == g.claw_x + (5 * 6) + 2
        grabber_width == 2
        player_center == g.player_x + PLAYER_WIDTH \div 2
        player_radius == 3
        claw_bottom == g.claw_line3_y
    IN  /\ claw_bottom >= PLAYER_Y - 2
        /\ claw_bottom <= PLAYER_Y + 4
        /\ \/ /\ player_center >= left_grabber_x - player_radius
              /\ player_center <= left_grabber_x + grabber_width + player_radius
           \/ /\ player_center >= right_grabber_x - player_radius
              /\ player_center <= right_grabber_x + grabber_width + player_radius
           \/ /\ player_center > left_grabber_x + grabber_width
              /\ player_center < right_grabber_x

----------------------------------------------------------------------------
(* Link protocol (lines 515-595)                                           *)

\* What uart.readline() returns, read after read, until the buffer is
\* empty.  kind "AIM": the line AIM:<float>, v its value (nan for float('nan'));
\* "AIMBAD": AIM: with a payload float() rejects; "FIRE": exactly FIRE:1;
\* "OTHER": any other text, such as P:<int>; "UNDEC": bytes decode() rejects;
\* "ERR": readline() raises.
Line(kind, nan, v) == [kind |-> kind, nan |-> nan, v |-> v]

\* the drain reading one line only
DrainUart_OneLine(g, buf) ==
    LET g1 == [g EXCEPT !.uart_reads = g.uart_reads + 1] IN
    IF buf = <<>> THEN g1
    ELSE LET m == Head(buf) IN
         IF m.kind = "AIM"
         THEN [g1 EXCEPT !.opponent_aim_raw = [nan |-> m.nan, v |-> m.v]]
         ELSE IF m.kind = "FIRE" THEN [g1 EXCEPT !.fire_flag = TRUE]
         ELSE g1

RECURSIVE DrainUart_PastError(_, _)
\* the drain reading on after a read that raised
DrainUart_PastError(g, buf) ==
    LET g1 == [g EXCEPT !.uart_reads = g.uart_reads + 1] IN
    IF buf = <<>> THEN g1
    ELSE LET m == Head(buf) IN
         IF m.kind = "AIM"
         THEN DrainUart_PastError(
                 [g1 EXCEPT !.opponent_aim_raw = [nan |-> m.nan, v |-> m.v]],
                 Tail(buf))
         ELSE IF m.kind = "FIRE"
              THEN DrainUart_PastError([g1 EXCEPT !.fire_flag = TRUE], Tail(buf))
         ELSE DrainUart_PastError(g1, Tail(buf))

RECURSIVE DrainUart_StopAtBad(_, _)
\* the drain returning at a line it cannot use
DrainUart_StopAtBad(g, buf) ==
    LET g1 == [g EXCEPT !.uart_reads = g.uart_reads + 1] IN
    IF buf = <<>> THEN g1
    ELSE LET m == Head(buf) IN
         IF m.kind = "AIM"
         THEN DrainUart_StopAtBad(
                 [g1 EXCEPT !.opponent_aim_raw = [nan |-> m.nan, v |-> m.v]],
                 Tail(buf))
         ELSE IF m.kind = "FIRE"
              THEN DrainUart_StopAtBad([g1 EXCEPT !.fire_flag = TRUE], Tail(buf))
         ELSE g1

RECURSIVE DrainUart(_, _)
\* the while True loop of process_uart (lines 527-567)
DrainUart(g, buf) ==
    LET g1 == [g EXCEPT !.uart_reads = g.uart_reads + 1] IN
    IF buf = <<>> THEN g1
    ELSE LET m == Head(buf) IN
         IF m.kind = "ERR" THEN g1
         ELSE IF m.kind = "AIM"
              THEN DrainUart([g1 EXCEPT !.opponent_aim_raw = [nan |-> m.nan, v |-> m.v]],
                             Tail(buf))
         ELSE IF m.kind = "FIRE"
              THEN DrainUart([g1 EXCEPT !.fire_flag = TRUE], Tail(buf))
         ELSE DrainUart(g1, Tail(buf))

\* lines 515-567
process_uart(g, buf) ==
    IF ~g.multiplayer_active \/ ~g.uart THEN g
    ELSE DrainUart([g EXCEPT !.rx = buf], buf)

\* send_player_position without the test of line 583
send_player_position_Always(g, write_ok) ==
    IF ~g.multiplayer_active \/ ~g.uart THEN g
    ELSE IF write_ok
         THEN [g EXCEPT !.last_player_x = g.player_x,
                        !.tx = "sent", !.last_sent = g.player_x]
         ELSE [g EXCEPT !.tx = "failed"]

\* lines 571-595; write_ok = FALSE when uart.write raises
send_player_position(g, write_ok) ==
    IF ~g.multiplayer_active \/ ~g.uart THEN g
    ELSE IF (IF g.player_x >= g.last_player_x THEN g.player_x - g.last_player_x
             ELSE g.last_player_x - g.player_x) >= 1
         THEN IF write_ok
              THEN [g EXCEPT !.last_player_x = g.player_x,
                             !.tx = "sent", !.last_sent = g.player_x]
              ELSE [g EXCEPT !.tx = "failed"]
         ELSE g

----------------------------------------------------------------------------
(* The sections of the main loop (lines 1469-1813)                         *)

\* a sample of accelerometer.acceleration: ok = FALSE when the read raises,
\* ax in 1/10 m/s^2
Tilt(ok, ax) == [ok |-> ok, ax |-> ax]

\* PLAYER MOVEMENT clamping at SCREEN_WIDTH instead of SCREEN_WIDTH - PLAYER_WIDTH
PlayerMovement_Wide(g, tilt) ==
    LET ax == IF tilt.ok THEN tilt.ax ELSE 0
        move_speed == map_range(ax, ACCEL_MIN, ACCEL_MAX, -10, 10)
        x1 == g.player_x + int_q(move_speed[1], move_speed[2])
        x2 == IF x1 < 0 THEN 0 ELSE x1
        x3 == IF x2 > SCREEN_WIDTH THEN SCREEN_WIDTH ELSE x2
    IN  [g EXCEPT !.player_x = x3]

\* PLAYER MOVEMENT taking a failed read as the lowest reading
PlayerMovement_FailLow(g, tilt) ==
    LET ax == IF tilt.ok THEN tilt.ax ELSE ACCEL_MIN
        move_speed == map_range(ax, ACCEL_MIN, ACCEL_MAX, -10, 10)
        x1 == g.player_x + int_q(move_speed[1], move_speed[2])
        x2 == IF x1 < 0 THEN 0 ELSE x1
        x3 == IF x2 > SCREEN_WIDTH - PLAYER_WIDTH
              THEN SCREEN_WIDTH - PLAYER_WIDTH ELSE x2
    IN  [g EXCEPT !.player_x = x3]


\* PLAYER MOVEMENT (lines 1565-1591)
PlayerMovement(g, tilt) ==
    LET ax == IF tilt.ok THEN tilt.ax ELSE 0
        move_speed == map_range(ax, ACCEL_MIN, ACCEL_MAX, -10, 10)
        x1 == g.player_x + int_q(move_speed[1], move_speed[2])
        x2 == IF x1 < 0 THEN 0 ELSE x1
        x3 == IF x2 > SCREEN_WIDTH - PLAYER_WIDTH
              THEN SCREEN_WIDTH - PLAYER_WIDTH ELSE x2
    IN  [g EXCEPT !.player_x = x3]

\* the life loss ending the session only below zero lives
ApplyHit_BelowZero(g, t) ==
    LET g1 == [g EXCEPT !.lives = g.lives - 1, !.last_hit_time = t,
                        !.pass_hits = g.pass_hits + 1]
    IN  IF g1.lives < 0
        THEN [g1 EXCEPT !.game_state = "GAME_OVER",
                        !.message_label = Msg("GAME OVER", g1.score)]
        ELSE g1

\* the life loss taking two lives
ApplyHit_Double(g, t) ==
    LET g1 == [g EXCEPT !.lives = g.lives - 2, !.last_hit_time = t,
                        !.pass_hits = g.pass_hits + 1]
    IN  IF g1.lives <= 0
        THEN [g1 EXCEPT !.game_state = "GAME_OVER",
                        !.message_label = Msg("GAME OVER", g1.score)]
        ELSE g1

\* the life loss without the assignment to last_hit_time
ApplyHit_NoStamp(g, t) ==
    LET g1 == [g EXCEPT !.lives = g.lives - 1,
                        !.pass_hits = g.pass_hits + 1]
    IN  IF g1.lives <= 0
        THEN [g1 EXCEPT !.game_state = "GAME_OVER",
                        !.message_label = Msg("GAME OVER", g1.score)]
        ELSE g1

\* the life loss of lines 1416-1430 and 1663-1677; t is the reading of
\* time.monotonic() stored in last_hit_time
ApplyHit(g, t) ==
    LET g1 == [g EXCEPT !.lives = g.lives - 1, !.last_hit_time = t,
                        !.pass_hits = g.pass_hits + 1]
    IN  IF g1.lives <= 0
        THEN [g1 EXCEPT !.game_state = "GAME_OVER",
                        !.message_label = Msg("GAME OVER", g1.score)]
        ELSE g1

\* The sleeps of drop_claw_multiplayer, in 1/64 s rounded up: ten sleeps of
\* 0.03 s lie between the call and the check of step DROP_STEPS (line 1434);
\* one more, 0.15 s, the DROP_STEPS + 1 sleeps of the rise and 0.1 s follow
\* it (lines 1434-1459)
DropHitDelay == (DROP_STEPS * 3 * 64 + 99) \div 100
DropTail == (((DROP_STEPS + 2) * 3 + 15 + 10) * 64 + 99) \div 100

RECURSIVE DropDown(_, _, _, _, _)
\* the drop animation of drop_claw_multiplayer (lines 1402-1434), from step
\* on; current_time was read once before the loop, t_hit is what
\* time.monotonic() returns at the step that applies a hit
DropDown(g, step, hit_detected, current_time, t_hit) ==
    IF step > DROP_STEPS THEN g
    ELSE LET offset == step * DROP_STEP_PIXELS
             g1 == set_claw_y([g EXCEPT !.claw_y_offset = offset * 20], offset)
             hit == /\ check_collision(g1)
                    /\ ~hit_detected
                    /\ (current_time - g1.last_hit_time) > HIT_COOLDOWN
             g2 == IF hit THEN ApplyHit(g1, t_hit) ELSE g1
         IN  DropDown(g2, step + 1, hit_detected \/ hit, current_time, t_hit)

\* lines 1384-1459.  The call blocks the loop, and the clock moves on by
\* the sleeps: the only step whose claw_line3.y lies in the hit window is
\* step DROP_STEPS (22 + 30 = PLAYER_Y), reached DropHitDelay after the call.
drop_claw_multiplayer(g) ==
    IF g.game_state # "PLAYING" THEN g
    ELSE LET g0 == [g EXCEPT !.drops = g.drops + 1]
             g1 == DropDown(g0, 0, FALSE, g.clock, g.clock + DropHitDelay)
             g2 == set_claw_y(g1, 0)
         IN  [g2 EXCEPT !.claw_y_offset = CLAW_RESET_Y,
                        !.clock = g.clock + DropHitDelay + DropTail]

\* the single-player branch without the claw_has_hit test
SinglePlayerClaw_NoFlag(g, x) ==
    LET g1 == [g EXCEPT !.claw_y_offset = g.claw_y_offset + g.claw_speed]
        g2 == set_claw_y(g1, int_px(g1.claw_y_offset))
        g3 == IF g2.claw_y_offset > (PLAYER_Y + 8) * 20
              THEN reset_claw_spawn(
                      [g2 EXCEPT !.score = IF ~g2.claw_has_hit
                                           THEN g2.score + 1 ELSE g2.score],
                      TRUE, x)
              ELSE g2
        g4 == [g3 EXCEPT !.pass_overlap = g3.pass_overlap \/ check_collision(g3),
                         !.pass_window = g3.pass_window \/ InHitWindow(g3)]
        current_time == g4.clock
    IN  IF /\ check_collision(g4)
           /\ (current_time - g4.last_hit_time) > HIT_COOLDOWN
        THEN [ApplyHit(g4, current_time) EXCEPT !.claw_has_hit = TRUE]
        ELSE g4

\* the single-player branch counting every completed pass
SinglePlayerClaw_CountsHits(g, x) ==
    LET g1 == [g EXCEPT !.claw_y_offset = g.claw_y_offset + g.claw_speed]
        g2 == set_claw_y(g1, int_px(g1.claw_y_offset))
        g3 == IF g2.claw_y_offset > (PLAYER_Y + 8) * 20
              THEN reset_claw_spawn([g2 EXCEPT !.score = g2.score + 1], TRUE, x)
              ELSE g2
        g4 == [g3 EXCEPT !.pass_overlap = g3.pass_overlap \/ check_collision(g3),
                         !.pass_window = g3.pass_window \/ InHitWindow(g3)]
        current_time == g4.clock
    IN  IF /\ ~g4.claw_has_hit
           /\ check_collision(g4)
           /\ (current_time - g4.last_hit_time) > HIT_COOLDOWN
        THEN [ApplyHit(g4, current_time) EXCEPT !.claw_has_hit = TRUE]
        ELSE g4

\* the single-player branch of CLAW CONTROL (lines 1635-1677)
SinglePlayerClaw(g, x) ==
    LET g1 == [g EXCEPT !.claw_y_offset = g.claw_y_offset + g.claw_speed]
        g2 == set_claw_y(g1, int_px(g1.claw_y_offset))
        g3 == IF g2.claw_y_offset > (PLAYER_Y + 8) * 20
              THEN reset_claw_spawn(
                      [g2 EXCEPT !.score = IF ~g2.claw_has_hit
                                           THEN g2.score + 1 ELSE g2.score],
                      TRUE, x)
              ELSE g2
        g4 == [g3 EXCEPT !.pass_overlap = g3.pass_overlap \/ check_collision(g3),
                         !.pass_window = g3.pass_window \/ InHitWindow(g3)]
        current_time == g4.clock
    IN  IF /\ ~g4.claw_has_hit
           /\ check_collision(g4)
           /\ (current_time - g4.last_hit_time) > HIT_COOLDOWN
        THEN [ApplyHit(g4, current_time) EXCEPT !.claw_has_hit = TRUE]
        ELSE g4

\* the aim mapped onto the whole width of the screen
AimedClawX_FullWidth(g) ==
    IF g.opponent_aim_raw.nan THEN g.claw_x
    ELSE LET m == map_range(g.opponent_aim_raw.v, ACCEL_MIN, ACCEL_MAX,
                            0, SCREEN_WIDTH)
         IN  int_q(m[1], m[2])


\* int(map_range(opponent_aim_raw, ...)) of line 1611; int(nan) raises and
\* the except keeps claw_line1.x
AimedClawX(g) ==
    IF g.opponent_aim_raw.nan THEN g.claw_x
    ELSE LET m == map_range(g.opponent_aim_raw.v, ACCEL_MIN, ACCEL_MAX,
                            0, SCREEN_WIDTH - CLAW_WIDTH)
         IN  int_q(m[1], m[2])

\* CLAW CONTROL counting a point for every drop
ClawControl_DropScores(g, x) ==
    IF g.difficulty = "MULTIPLAYER" /\ g.multiplayer_active
    THEN LET g1 == [g EXCEPT !.claw_x = AimedClawX(g)]
         IN  IF g1.fire_flag /\ g1.game_state = "PLAYING"
             THEN [drop_claw_multiplayer(g1) EXCEPT !.fire_flag = FALSE,
                                                    !.score = g1.score + 1]
             ELSE g1
    ELSE IF g.game_state = "PLAYING"
         THEN SinglePlayerClaw(g, x)
         ELSE g

\* CLAW CONTROL leaving fire_flag set after the drop
ClawControl_KeepFlag(g, x) ==
    IF g.difficulty = "MULTIPLAYER" /\ g.multiplayer_active
    THEN LET g1 == [g EXCEPT !.claw_x = AimedClawX(g)]
         IN  IF g1.fire_flag /\ g1.game_state = "PLAYING"
             THEN drop_claw_multiplayer(g1)
             ELSE g1
    ELSE IF g.game_state = "PLAYING"
         THEN SinglePlayerClaw(g, x)
         ELSE g

\* CLAW CONTROL (lines 1603-1677)
ClawControl(g, x) ==
    IF g.difficulty = "MULTIPLAYER" /\ g.multiplayer_active
    THEN LET g1 == [g EXCEPT !.claw_x = AimedClawX(g)]
         IN  IF g1.fire_flag /\ g1.game_state = "PLAYING"
             THEN [drop_claw_multiplayer(g1) EXCEPT !.fire_flag = FALSE]
             ELSE g1
    ELSE IF g.game_state = "PLAYING"
         THEN SinglePlayerClaw(g, x)
         ELSE g

\* LEVEL COMPLETE taking the level before the last for the last
LevelComplete_EarlyWin(g, remaining, x) ==
    IF g.difficulty # "MULTIPLAYER" /\ g.game_state = "PLAYING" /\ remaining <= 0
    THEN IF g.current_level_index < Len(LEVEL_DATA) - 2
         THEN LET i == g.current_level_index + 1
              IN  start_level_same_difficulty(
                      [g EXCEPT !.current_level_index = i,
                                !.level_time_target = LEVEL_DATA[i + 1]], x)
         ELSE [g EXCEPT !.game_state = "WIN",
                        !.message_label = Msg("YOU WIN!", g.score)]
    ELSE IF g.difficulty = "MULTIPLAYER" /\ g.game_state = "PLAYING" /\ remaining <= 0
         THEN [g EXCEPT !.game_state = "WIN",
                        !.message_label = Msg("YOU SURVIVED!", g.score)]
         ELSE g

\* LEVEL COMPLETE without the game_state tests
LevelComplete_AnyState(g, remaining, x) ==
    IF g.difficulty # "MULTIPLAYER" /\ remaining <= 0
    THEN IF g.current_level_index < Len(LEVEL_DATA) - 1
         THEN LET i == g.current_level_index + 1
              IN  start_level_same_difficulty(
                      [g EXCEPT !.current_level_index = i,
                                !.level_time_target = LEVEL_DATA[i + 1]], x)
         ELSE [g EXCEPT !.game_state = "WIN",
                        !.message_label = Msg("YOU WIN!", g.score)]
    ELSE IF g.difficulty = "MULTIPLAYER" /\ remaining <= 0
         THEN [g EXCEPT !.game_state = "WIN",
                        !.message_label = Msg("YOU SURVIVED!", g.score)]
         ELSE g


\* LEVEL COMPLETE starting the last level over instead of winning
LevelComplete_LastLevelAgain(g, remaining, x) ==
    IF g.difficulty # "MULTIPLAYER" /\ g.game_state = "PLAYING" /\ remaining <= 0
    THEN LET i == IF g.current_level_index < Len(LEVEL_DATA) - 1
                  THEN g.current_level_index + 1 ELSE g.current_level_index
         IN  start_level_same_difficulty(
                 [g EXCEPT !.current_level_index = i,
                           !.level_time_target = LEVEL_DATA[i + 1]], x)
    ELSE IF g.difficulty = "MULTIPLAYER" /\ g.game_state = "PLAYING" /\ remaining <= 0
         THEN [g EXCEPT !.game_state = "WIN",
                        !.message_label = Msg("YOU SURVIVED!", g.score)]
         ELSE g


\* LEVEL COMPLETE (lines 1681-1707); remaining was computed in TIMER UPDATE
LevelComplete(g, remaining, x) ==
    IF g.difficulty # "MULTIPLAYER" /\ g.game_state = "PLAYING" /\ remaining <= 0
    THEN IF g.current_level_index < Len(LEVEL_DATA) - 1
         THEN LET i == g.current_level_index + 1
              IN  start_level_same_difficulty(
                      [g EXCEPT !.current_level_index = i,
                                !.level_time_target = LEVEL_DATA[i + 1]], x)
         ELSE [g EXCEPT !.game_state = "WIN",
                        !.message_label = Msg("YOU WIN!", g.score)]
    ELSE IF g.difficulty = "MULTIPLAYER" /\ g.game_state = "PLAYING" /\ remaining <= 0
         THEN [g EXCEPT !.game_state = "WIN",
                        !.message_label = Msg("YOU SURVIVED!", g.score)]
         ELSE g

----------------------------------------------------------------------------
(* The main loop                                                           *)

\* button edge taken from the level of the sample alone
ButtonEdge_Level(g, current_btn) ==
    [g EXCEPT !.button_pressed = ~current_btn,
              !.last_btn_state = current_btn]


\* button edge (lines 1471-1475)
ButtonEdge(g, current_btn) ==
    [g EXCEPT !.button_pressed = g.last_btn_state /\ ~current_btn,
              !.last_btn_state = current_btn]

\* menu rotation stepping on either change of rot_a
MenuRotation_AnyEdge(g, current_rot_a, rot_b) ==
    IF g.in_menu /\ current_rot_a # g.rot_last_state
    THEN LET i == (IF rot_b THEN g.menu_index + 1
                   ELSE g.menu_index - 1) % Len(DIFFICULTY_OPTIONS)
         IN  [g EXCEPT !.menu_index = i, !.message_label = Msg("< >", i),
                       !.rot_last_state = current_rot_a]
    ELSE g


\* menu rotation stopping at the first and the last option
MenuRotation_Clamped(g, current_rot_a, rot_b) ==
    IF g.in_menu /\ current_rot_a # g.rot_last_state
    THEN LET g1 == IF ~current_rot_a
                   THEN LET j == IF rot_b THEN g.menu_index + 1
                                  ELSE g.menu_index - 1
                            i == IF j > 3 THEN 3 ELSE IF j < 0 THEN 0 ELSE j
                        IN  [g EXCEPT !.menu_index = i,
                                      !.message_label = Msg("< >", i)]
                   ELSE g
         IN  [g1 EXCEPT !.rot_last_state = current_rot_a]
    ELSE g


\* menu rotation (lines 1479-1497)
MenuRotation(g, current_rot_a, rot_b) ==
    IF g.in_menu /\ current_rot_a # g.rot_last_state
    THEN LET g1 == IF ~current_rot_a
                   THEN LET i == (IF rot_b THEN g.menu_index + 1
                                  ELSE g.menu_index - 1) % Len(DIFFICULTY_OPTIONS)
                        IN  [g EXCEPT !.menu_index = i,
                                      !.message_label = Msg("< >", i)]
                   ELSE g
         IN  [g1 EXCEPT !.rot_last_state = current_rot_a]
    ELSE g

\* MENU SELECTION (lines 1503-1533)
MenuSelection(g, x, uart_ok) ==
    IF g.button_pressed
    THEN LET sel == DIFFICULTY_OPTIONS[g.menu_index + 1]
             g1 == [g EXCEPT !.in_menu = FALSE, !.sessions = g.sessions + 1,
                             !.records_added = 0]
             g2 == IF sel = "EASY" THEN start_easy(g1, x)
                   ELSE IF sel = "MEDIUM" THEN start_medium(g1, x)
                   ELSE IF sel = "HARD" THEN start_hard(g1, x)
                   ELSE start_multiplayer(g1, uart_ok)
         IN  [g2 EXCEPT !.message_label = NoMsg]
    ELSE g

\* the next letter without the wrap from Z to A
NextLetter_NoWrap(ord_val) == ord_val + 1


\* the letter one detent later (lines 1727-1735) and earlier (lines 1741-1749)
NextLetter(ord_val) == IF ord_val + 1 > ORD_Z THEN ORD_A ELSE ord_val + 1
PrevLetter(ord_val) == IF ord_val - 1 < ORD_A THEN ORD_Z ELSE ord_val - 1

\* entering_initials rotation (lines 1717-1753)
InitialsRotation(g, current_rot_a, rot_b) ==
    IF current_rot_a # g.rot_last_state
    THEN LET k == g.initial_index + 1
             g1 == IF ~current_rot_a
                   THEN [g EXCEPT !.current_initials[k] =
                                      IF rot_b THEN NextLetter(g.current_initials[k])
                                      ELSE PrevLetter(g.current_initials[k]),
                                  !.turns = g.turns + 1]
                   ELSE g
         IN  [g1 EXCEPT !.rot_last_state = current_rot_a]
    ELSE g

\* entering_initials button committing on the second press
InitialsButton_Early(g) ==
    IF g.button_pressed
    THEN LET g1 == [g EXCEPT !.initial_index = g.initial_index + 1]
         IN  IF g1.initial_index >= 2
             THEN show_high_scores(
                     [g1 EXCEPT !.high_scores =
                                    add_high_score(g1.high_scores,
                                                   g1.current_initials, g1.score),
                                !.records_added = g1.records_added + 1,
                                !.entering_initials = FALSE,
                                !.game_state = "SHOW_HIGH_SCORES"])
             ELSE g1
    ELSE g


\* entering_initials button leaving entering_initials set at the commit
InitialsButton_StaysEntering(g) ==
    IF g.button_pressed
    THEN LET g1 == [g EXCEPT !.initial_index = g.initial_index + 1]
         IN  IF g1.initial_index >= 3
             THEN show_high_scores(
                     [g1 EXCEPT !.high_scores =
                                    add_high_score(g1.high_scores,
                                                   g1.current_initials, g1.score),
                                !.records_added = g1.records_added + 1,
                                !.game_state = "SHOW_HIGH_SCORES"])
             ELSE g1
    ELSE g


\* entering_initials button (lines 1759-1779)
InitialsButton(g) ==
    IF g.button_pressed
    THEN LET g1 == [g EXCEPT !.initial_index = g.initial_index + 1]
         IN  IF g1.initial_index >= 3
             THEN show_high_scores(
                     [g1 EXCEPT !.high_scores =
                                    add_high_score(g1.high_scores,
                                                   g1.current_initials, g1.score),
                                !.records_added = g1.records_added + 1,
                                !.entering_initials = FALSE,
                                !.game_state = "SHOW_HIGH_SCORES"])
             ELSE g1
    ELSE g

\* HIGH SCORE AND MENU HANDLING returning to the menu at once when the score
\* does not qualify
HighScoreAndMenuHandling_SkipBoard(g, current_rot_a, rot_b) ==
    IF g.entering_initials
    THEN InitialsButton(InitialsRotation(g, current_rot_a, rot_b))
    ELSE IF g.game_state = "SHOW_HIGH_SCORES"
         THEN IF g.button_pressed
              THEN [show_menu(g) EXCEPT !.game_state = "PLAYING"]
              ELSE g
    ELSE IF g.game_state = "GAME_OVER" \/ g.game_state = "WIN"
         THEN IF is_high_score(g.high_scores, g.score)
              THEN show_initial_entry(g)
              ELSE [show_menu(g) EXCEPT !.game_state = "PLAYING"]
    ELSE g


\* HIGH SCORE AND MENU HANDLING (lines 1713-1809)
HighScoreAndMenuHandling(g, current_rot_a, rot_b) ==
    IF g.entering_initials
    THEN InitialsButton(InitialsRotation(g, current_rot_a, rot_b))
    ELSE IF g.game_state = "SHOW_HIGH_SCORES"
         THEN IF g.button_pressed
              THEN [show_menu(g) EXCEPT !.game_state = "PLAYING"]
              ELSE g
    ELSE IF g.game_state = "GAME_OVER" \/ g.game_state = "WIN"
         THEN IF is_high_score(g.high_scores, g.score)
              THEN show_initial_entry(g)
              ELSE show_high_scores([g EXCEPT !.game_state = "SHOW_HIGH_SCORES"])
    ELSE g

\* remaining of TIMER UPDATE (lines 1547-1553)
Remaining(g, now) ==
    LET remaining == g.level_time_target - (now - g.level_start_time)
    IN  IF remaining < 0 THEN 0 ELSE remaining

\* The surroundings of a run: the accelerometer samples, the values
\* random.randint returns, the receive buffers a tick finds, the advances of
\* the clock from one tick to the next while a session is PLAYING (Dts) and
\* otherwise (IdleDts), the last clock value followed, and the number of
\* sessions the player starts.
Env(Tilts, Spawns, Buffers, Dts, IdleDts, Horizon, Sessions) ==
    [Tilts |-> Tilts, Spawns |-> Spawns, Buffers |-> Buffers, Dts |-> Dts,
     IdleDts |-> IdleDts, Horizon |-> Horizon, Sessions |-> Sessions]

\* the iteration reaches uart.write (line 589)
WriteDue(g) ==
    g.multiplayer_active /\ g.uart /\ g.player_x # g.last_player_x

\* the iteration reaches random.randint through line 1653
RespawnDue(g) ==
    /\ ~(g.difficulty = "MULTIPLAYER" /\ g.multiplayer_active)
    /\ g.game_state = "PLAYING"
    /\ g.claw_y_offset + g.claw_speed > (PLAYER_Y + 8) * 20

\* the iteration reaches random.randint through line 1691
AdvanceDue(g, remaining) ==
    /\ g.difficulty # "MULTIPLAYER" /\ g.game_state = "PLAYING" /\ remaining <= 0
    /\ g.current_level_index < Len(LEVEL_DATA) - 1

\* the globals when an iteration starts at clock value now: the histories
\* kept per iteration start afresh
Iteration(now) ==
    [G EXCEPT !.clock = now, !.rx = <<>>, !.uart_reads = 0, !.tx = "none",
              !.drops = 0]

\* An iteration that finds in_menu set (lines 1469-1533, ending in continue)
MenuTick(env) ==
    /\ pc = "sample"
    /\ in_menu
    /\ \E current_btn \in BOOLEAN, current_rot_a \in BOOLEAN, dt \in env.IdleDts :
          /\ clock + dt <= env.Horizon
          /\ (last_btn_state /\ ~current_btn) => sessions < env.Sessions
          /\ \E rot_b \in (IF rot_last_state /\ ~current_rot_a
                           THEN BOOLEAN ELSE {TRUE}) :
             LET g0 == ButtonEdge(Iteration(clock + dt), current_btn)
                 g1 == MenuRotation(g0, current_rot_a, rot_b)
                 sel == DIFFICULTY_OPTIONS[g1.menu_index + 1]
             IN  \E x \in (IF g1.button_pressed /\ sel # "MULTIPLAYER"
                           THEN env.Spawns ELSE {g1.claw_x}),
                    uart_ok \in (IF g1.button_pressed /\ sel = "MULTIPLAYER"
                                 THEN BOOLEAN ELSE {TRUE}) :
                    Commit(MenuSelection(g1, x, uart_ok))

\* An iteration that finds in_menu clear, up to LEVEL COMPLETE (lines
\* 1469-1707), followed while the score is at most max_score
PlayTickTo(env, max_score) ==
    /\ pc = "sample"
    /\ ~in_menu
    /\ score <= max_score
    /\ \E current_btn \in BOOLEAN,
          dt \in (IF game_state = "PLAYING" THEN env.Dts ELSE env.IdleDts) :
          /\ clock + dt <= env.Horizon
          /\ \E buf \in (IF multiplayer_active /\ uart THEN env.Buffers ELSE {<<>>}),
                tilt \in env.Tilts :
             LET now == clock + dt
                 g0 == ButtonEdge(Iteration(now), current_btn)
                 g1 == IF g0.multiplayer_active THEN process_uart(g0, buf) ELSE g0
                 remaining == Remaining(g1, now)
                 g2 == PlayerMovement(g1, tilt)
             IN  \E write_ok \in (IF WriteDue(g2) THEN BOOLEAN ELSE {TRUE}),
                    x1 \in (IF RespawnDue(g2) THEN env.Spawns ELSE {g2.claw_x}) :
                 LET g3 == IF g2.multiplayer_active
                           THEN send_player_position(g2, write_ok) ELSE g2
                     g4 == ClawControl(g3, x1)
                 IN  \E x2 \in (IF AdvanceDue(g4, remaining)
                                THEN env.Spawns ELSE {g4.claw_x}) :
                        Commit([LevelComplete(g4, remaining, x2)
                                   EXCEPT !.pc = "screens"])

PlayTick(env) == PlayTickTo(env, MaxScore)

\* The rest of the iteration: HIGH SCORE AND MENU HANDLING (lines 1711-1813)
ScreenTick ==
    /\ pc = "screens"
    /\ \E current_rot_a \in (IF entering_initials THEN BOOLEAN ELSE {rot_last_state}) :
          /\ (entering_initials /\ rot_last_state /\ ~current_rot_a) => turns < MaxTurns
          /\ \E rot_b \in (IF entering_initials /\ rot_last_state /\ ~current_rot_a
                           THEN BOOLEAN ELSE {TRUE}) :
                Commit([HighScoreAndMenuHandling(G, current_rot_a, rot_b)
                           EXCEPT !.pc = "sample"])

----------------------------------------------------------------------------
(* Specifications                                                          *)

\* calibrate_accelerometer runs 5.0 s before the loop starts (line 1087), in 1/64 s
CALIB_DURATION == 320

\* the state when the loop is entered, high_scores loaded from file
InitFrom(file) ==
    /\ pc = "sample"
    /\ clock = CALIB_DURATION
    /\ last_btn_state \in BOOLEAN
    /\ rot_last_state \in BOOLEAN
    /\ button_pressed = FALSE
    /\ in_menu = TRUE /\ menu_index = 0 /\ difficulty = "NONE"
    /\ current_level_index = 0 /\ level_time_target = LEVEL_DATA[1]
    /\ level_start_time = 0 /\ game_state = "PLAYING" /\ lives = 3 /\ score = 0
    /\ claw_y_offset = CLAW_RESET_Y /\ claw_speed = INITIAL_CLAW_SPEED
    /\ claw_has_hit = FALSE /\ last_hit_time = 0
    /\ claw_x = (SCREEN_WIDTH - CLAW_WIDTH) \div 2 /\ claw_line3_y = HIDDEN_Y
    /\ player_x = SCREEN_WIDTH \div 2
    /\ uart = FALSE /\ multiplayer_active = FALSE
    /\ opponent_aim_raw = [nan |-> FALSE, v |-> 0]
    /\ fire_flag = FALSE /\ last_player_x = 0
    /\ high_scores = load_high_scores(file)
    /\ entering_initials = FALSE /\ initial_index = 0 /\ current_initials = AAA
    /\ message_label = Msg("< >", 0)
    /\ pass_hits = 0 /\ turns = 0 /\ sessions = 0 /\ records_added = 0
    /\ rx = <<>> /\ uart_reads = 0 /\ tx = "none" /\ last_sent = -1
    /\ drops = 0 /\ pass_overlap = FALSE /\ hs_file = file
    /\ pass_window = FALSE

Rec(initials, score_val) == [kind |-> "rec", initials |-> initials, score |-> score_val]
NoFile == [exists |-> FALSE, lines |-> <<>>]

\* Spec: one session of any difficulty with the player standing still
\* (every accelerometer read fails), the claw spawning over the player (44)
\* or away from it (98), one tick every 1/16 s (4 units)
GameEnv ==
    Env({Tilt(FALSE, 0)}, {44, 98},
        {<<>>, <<Line("FIRE", FALSE, 0)>>}, {4}, {0}, MaxClock, 1)

Init == InitFrom(NoFile)

Next ==
    \/ MenuTick(GameEnv)
    \/ PlayTick(GameEnv)
    \/ ScreenTick

Spec == Init /\ [][Next]_vars

\* SpecReplay: up to MaxSessions sessions one after the other, the claw
\* always spawning over the player, the link silent
ReplayEnv ==
    Env({Tilt(FALSE, 0)}, {44}, {<<>>}, {4}, {0}, MaxClock, MaxSessions)

NextReplay ==
    \/ MenuTick(ReplayEnv)
    \/ PlayTick(ReplayEnv)
    \/ ScreenTick

SpecReplay == Init /\ [][NextReplay]_vars

\* SpecMove: one session with the board tilted either way, within and
\* beyond the range map_range clamps to, or the read failing
MoveTilts ==
    {Tilt(FALSE, 0), Tilt(TRUE, -1000), Tilt(TRUE, 40), Tilt(TRUE, 1000)}

MoveEnv ==
    Env(MoveTilts, {98}, {<<>>}, {4}, {0}, MoveHorizon, 1)

NextMove ==
    \/ MenuTick(MoveEnv)
    \/ PlayTick(MoveEnv)
    \/ ScreenTick

SpecMove == Init /\ [][NextMove]_vars

\* SpecJitter: one session whose ticks come 1/16 s (4 units) apart or LateDt apart
JitterEnv ==
    Env({Tilt(FALSE, 0)}, {44, 98},
        {<<>>, <<Line("FIRE", FALSE, 0)>>}, {4, LateDt}, {0}, JitterHorizon, 1)

NextJitter ==
    \/ MenuTick(JitterEnv)
    \/ PlayTick(JitterEnv)
    \/ ScreenTick

SpecJitter == Init /\ [][NextJitter]_vars

\* SpecScores: the high-score functions on their own.  The board is loaded
\* from any of ScoreFiles; then add_high_score and is_high_score are applied
\* to any of ScoreInputs in any order.
BOB == <<66, 79, 66>>
ScoreInputs == {0, 10, 11, 30, 50, 51}
ScoreInitials == {AAA, BOB}

ScoreFiles ==
    { NoFile,
      [exists |-> TRUE, lines |-> <<>>],
      [exists |-> TRUE, lines |-> <<Rec(BOB, 30)>>],
      [exists |-> TRUE, lines |-> <<Rec(AAA, 10), [kind |-> "skip"], Rec(BOB, 50)>>],
      [exists |-> TRUE, lines |-> <<Rec(BOB, 50), Rec(AAA, 30), Rec(AAA, 10)>>],
      [exists |-> TRUE, lines |-> <<Rec(AAA, 10), Rec(BOB, 50), Rec(AAA, 11), Rec(BOB, 30)>>],
      [exists |-> TRUE, lines |-> <<Rec(BOB, 50), [kind |-> "badint"], Rec(AAA, 30)>>] }

InitScores == \E file \in ScoreFiles : InitFrom(file)

\* the call of line 1769 on its own, with any initials and any score
AddHighScore ==
    \E initials \in ScoreInitials, s \in ScoreInputs :
        Commit([G EXCEPT !.high_scores = add_high_score(G.high_scores, initials, s)])

\* the test of line 1799 on its own, with any score: the entry of initials
\* is shown exactly when is_high_score returns True
IsHighScore ==
    \E s \in ScoreInputs :
        Commit([G EXCEPT !.score = s,
                         !.entering_initials = is_high_score(G.high_scores, s)])

NextScores ==
    \/ AddHighScore
    \/ IsHighScore

SpecScores == InitScores /\ [][NextScores]_vars

\* SpecCollide: check_collision on its own.  From the loaded program the
\* player and the claw are placed once, anywhere the loop can put them
\* (player_x in 0..120, the claw's x between the ends of random.randint's
\* range, its lowest line around the player's row or far from it), and
\* check_collision is called as line 1661 calls it; claw_has_hit holds what
\* it returned.
CollidePlayerXs == 0..(SCREEN_WIDTH - PLAYER_WIDTH)
CollideClawXs == {-10, 0, (SCREEN_WIDTH - CLAW_WIDTH) \div 2,
                  SCREEN_WIDTH - CLAW_WIDTH, SCREEN_WIDTH - CLAW_WIDTH + 10}
CollideClawYs == {CLAW_Y3_BASE - 10} \cup ((PLAYER_Y - 5)..(PLAYER_Y + 7))
                     \cup {PLAYER_Y + 30}

CheckCollision ==
    /\ in_menu /\ claw_line3_y = HIDDEN_Y
    /\ \E px \in CollidePlayerXs, cx \in CollideClawXs, y \in CollideClawYs :
          LET g == [G EXCEPT !.player_x = px, !.claw_x = cx, !.claw_line3_y = y]
          IN  Commit([g EXCEPT !.claw_has_hit = check_collision(g)])

NextCollide == CheckCollision

SpecCollide == Init /\ [][NextCollide]_vars

\* SpecRange: map_range on its own.  From the loaded program one aim of the
\* opponent, within and beyond [ACCEL_MIN, ACCEL_MAX], is stored and mapped
\* to the claw's x as lines 1609-1621 do.
RangeAims == (ACCEL_MIN - 30)..(ACCEL_MAX + 30)

MapAim ==
    /\ in_menu /\ opponent_aim_raw.v = 0
    /\ \E a \in RangeAims \ {0} :
          LET g == [G EXCEPT !.opponent_aim_raw = [nan |-> FALSE, v |-> a]]
          IN  Commit([g EXCEPT !.claw_x = AimedClawX(g)])

NextRange == MapAim

SpecRange == Init /\ [][NextRange]_vars

\* SpecRounds: up to MaxSessions sessions one after the other, each ended
\* session followed through the entry of initials and the high-score screen
\* back to the menu; the board starts as the fallback of load_high_scores
\* (no score of 0 qualifies) or from a file of one record (every score
\* qualifies); the link is silent and the encoder is turned by at most
\* RoundsTurns detents during an entry of initials
RoundsFiles ==
    { NoFile, [exists |-> TRUE, lines |-> <<Rec(BOB, 30)>>] }

InitRounds == \E file \in RoundsFiles : InitFrom(file)

RoundsEnv ==
    Env({Tilt(FALSE, 0)}, {44, 98}, {<<>>}, {4}, {0}, MaxClock, MaxSessions)

NextRounds ==
    \/ MenuTick(RoundsEnv)
    \/ PlayTick(RoundsEnv)
    \/ ScreenTick /\ turns' <= RoundsTurns

SpecRounds == InitRounds /\ [][NextRounds]_vars

\* SpecLink: one session with the opponent sending aims within and beyond
\* [ACCEL_MIN, ACCEL_MAX], an aim that is not a number, and fire requests;
\* the UART opens or fails to open
LinkBuffers ==
    { <<>>,
      <<Line("AIM", FALSE, -200)>>,
      <<Line("AIM", FALSE, 37), Line("FIRE", FALSE, 0)>>,
      <<Line("AIM", TRUE, 0)>>,
      <<Line("FIRE", FALSE, 0)>>,
      <<Line("FIRE", FALSE, 0), Line("AIM", FALSE, 1000)>> }

LinkEnv ==
    Env({Tilt(FALSE, 0)}, {98}, LinkBuffers, {4}, {0}, LinkHorizon, 1)

NextLink ==
    \/ MenuTick(LinkEnv)
    \/ PlayTick(LinkEnv)
    \/ ScreenTick /\ turns' <= RoundsTurns

SpecLink == Init /\ [][NextLink]_vars

\* SpecDrain: process_uart on its own.  A session of any difficulty is
\* started from the menu (the UART opens or fails to open); then the call
\* of line 1541 is made with the UART holding any sequence of up to MaxLines
\* lines of DrainLines, and made again after a call that found at most one
\* line.
DrainLines ==
    { Line("AIM", FALSE, 37), Line("AIM", FALSE, -200), Line("AIM", TRUE, 0),
      Line("AIMBAD", FALSE, 0), Line("FIRE", FALSE, 0), Line("OTHER", FALSE, 0),
      Line("UNDEC", FALSE, 0), Line("ERR", FALSE, 0) }

DrainBuffers ==
    UNION { [1..n -> DrainLines] : n \in 0..MaxLines }

ProcessUart ==
    /\ pc = "sample" /\ ~in_menu
    /\ Len(rx) <= 1
    /\ \E buf \in DrainBuffers :
          Commit(process_uart([G EXCEPT !.rx = <<>>, !.uart_reads = 0], buf))

DrainEnv ==
    Env({Tilt(FALSE, 0)}, {98}, {<<>>}, {4}, {0}, MaxClock, 1)

NextDrain ==
    \/ MenuTick(DrainEnv)
    \/ ProcessUart

SpecDrain == Init /\ [][NextDrain]_vars

\* SpecFire: up to MaxSessions sessions one after the other, the opponent
\* sending no line, one FIRE:1 or two FIRE:1 before a tick, also while a
\* drop blocks the loop and after the session has ended; the UART opens or
\* fails to open
FireBuffers ==
    { <<>>,
      <<Line("FIRE", FALSE, 0)>>,
      <<Line("FIRE", FALSE, 0), Line("FIRE", FALSE, 0)>> }

FireEnv ==
    Env({Tilt(FALSE, 0)}, {98}, FireBuffers, {4}, {0}, FireHorizon, MaxSessions)

NextFire ==
    \/ MenuTick(FireEnv)
    \/ PlayTick(FireEnv)
    \/ ScreenTick /\ turns' <= RoundsTurns

SpecFire == Init /\ [][NextFire]_vars

\* SpecPass: one session with the ticks 1/64 s apart (64 ticks a second),
\* the player standing still, the claw spawning at the left end of
\* random.randint's range (-10), over the player (44) or at the right end
\* (98), the link silent
PassEnv ==
    Env({Tilt(FALSE, 0)}, {-10, 44, 98}, {<<>>}, {1}, {0}, PassHorizon, 1)

NextPass ==
    \/ MenuTick(PassEnv)
    \/ PlayTick(PassEnv)
    \/ ScreenTick /\ turns' <= RoundsTurns

SpecPass == Init /\ [][NextPass]_vars

\* SpecLevels: one session followed through all ten levels: the player
\* stands still and the claw always spawns at the right end (98), away from
\* the player, one tick every 1/16 s (4 units), the link silent
LevelsEnv ==
    Env({Tilt(FALSE, 0)}, {98}, {<<>>}, {4}, {0}, LevelsHorizon, 1)

NextLevels ==
    \/ MenuTick(LevelsEnv)
    \/ PlayTickTo(LevelsEnv, LevelsScore)
    \/ ScreenTick /\ turns' <= RoundsTurns

SpecLevels == Init /\ [][NextLevels]_vars

\* SpecLoad: load_high_scores on its own.  The loop starts with the board
\* loaded from a missing file or from a file of up to MaxFileLines lines,
\* each a record, a line passed over or a line whose score int() rejects;
\* then is_high_score is applied to the scores of LoadInputs.
LoadLines ==
    { Rec(AAA, 10), Rec(BOB, 50), Rec(BOB, 30), Rec(AAA, 0),
      [kind |-> "skip"], [kind |-> "badint"] }

LoadFiles ==
    {NoFile} \cup
    { [exists |-> TRUE, lines |-> l] :
        l \in UNION { [1..n -> LoadLines] : n \in 0..MaxFileLines } }

LoadInputs == {0, 1, 31}

InitLoad == \E file \in LoadFiles : InitFrom(file)

\* the test of line 1799 on its own
LoadedIsHighScore ==
    \E s \in LoadInputs :
        Commit([G EXCEPT !.score = s,
                         !.entering_initials = is_high_score(G.high_scores, s)])

NextLoad == LoadedIsHighScore

SpecLoad == InitLoad /\ [][NextLoad]_vars

\* SpecEnds: one session followed to its end under the scheduling of the
\* loop: an iteration that has started runs to its end and is followed by
\* the next, 1/16 s (4 units) later while the session is PLAYING.  The
\* player stands still; random.randint returns the same value all through
\* the session, either 44 (every pass comes down over the player) or 98
\* (no pass does); the opponent is silent or fires.  No fairness is asked
\* of the menu, which waits for a press.
EndsEnv ==
    Env({Tilt(FALSE, 0)}, IF in_menu THEN {44, 98} ELSE {claw_x},
        {<<>>, <<Line("FIRE", FALSE, 0)>>}, {4}, {0}, LevelsHorizon, 1)

EndsPlayTick == PlayTickTo(EndsEnv, LevelsScore)

EndsScreenTick == ScreenTick /\ turns' <= RoundsTurns

NextEnds ==
    \/ MenuTick(EndsEnv)
    \/ EndsPlayTick
    \/ EndsScreenTick

\* The steps of EndsPlayTick and of EndsScreenTick, told by the guards of
\* the two actions and the pc they reach: EndsPlayTick can be taken
\* exactly when its guards hold (every \E below them has a value to draw),
\* EndsScreenTick whenever pc = "screens" (a sample of rot_a equal to the
\* stored level is always there)
TickRuns ==
    /\ pc = "sample" /\ ~in_menu /\ score <= LevelsScore
    /\ clock + (IF game_state = "PLAYING" THEN 4 ELSE 0) <= LevelsHorizon
    /\ pc' = "screens"

ScreensRun == pc = "screens" /\ pc' = "sample"

SpecEnds ==
    /\ Init /\ [][NextEnds]_vars
    /\ WF_pc(TickRuns) /\ WF_pc(ScreensRun)

----------------------------------------------------------------------------
(* Claims                                                                  *)

SinglePlayer == difficulty \in {"EASY", "MEDIUM", "HARD"}
Playing == ~in_menu /\ game_state = "PLAYING"

\* C6: in every non-Multiplayer session, whatever was played before it,
\* the time target in force while Playing at level index i is LEVEL_DATA[i]
\* (so an Easy session leaves level 0 when 3.0 s have elapsed).
C6_TargetIsLevelData ==
    (Playing /\ SinglePlayer) =>
        level_time_target = LEVEL_DATA[current_level_index + 1]

\* the speed a session of the difficulty starts with (lines 843, 871, 899)
StartSpeed(d) ==
    IF d = "EASY" THEN INITIAL_CLAW_SPEED
    ELSE IF d = "MEDIUM" THEN INITIAL_CLAW_SPEED + 8
    ELSE INITIAL_CLAW_SPEED + 16

\* C7: in every non-Multiplayer session the claw speed at level index i is
\* the session's starting speed plus CLAW_SPEED_STEP times i.
C7_SpeedIsStartPlusSteps ==
    (Playing /\ SinglePlayer) =>
        claw_speed = StartSpeed(difficulty) + CLAW_SPEED_STEP * current_level_index

\* the 60.0 s start_multiplayer assigns (line 917), in 1/64 s
MULTIPLAYER_ROUND == 3840

\* C8: a Multiplayer session moves to WIN exactly when the time elapsed
\* since the session's start reaches the flat duration start_multiplayer
\* assigns, and its level index stays 0.  (The YOU SURVIVED! message is on
\* the label from the transition to WIN until the end of that iteration.)
C8_RoundLastsFlatDuration ==
    /\ (message_label.text = "YOU SURVIVED!") =>
           clock - level_start_time >= MULTIPLAYER_ROUND
    /\ (Playing /\ difficulty = "MULTIPLAYER") =>
           /\ current_level_index = 0
           /\ (pc = "sample" => clock - level_start_time < MULTIPLAYER_ROUND)

\* C1: after the movement step player_x lies in [0, SCREEN_WIDTH -
\* PLAYER_WIDTH] = [0, 120], whatever the tilt read, or when the read fails.
C1_PlayerStaysOnScreen ==
    player_x \in 0..(SCREEN_WIDTH - PLAYER_WIDTH)

\* the player was pushed against the right edge by an iteration
C1_AtRightEdge ==
    pc = "screens" /\ player_x = SCREEN_WIDTH - PLAYER_WIDTH

\* C2: in a single-player session lives go down by at most 1 between two
\* consecutive respawns of the claw, also when check_collision stays true
\* on later ticks of the pass (pass_hits counts the life losses since the
\* last reset_claw_spawn).
C2_OneLifePerPass ==
    SinglePlayer => pass_hits <= 1

\* a tick of the pass after the one that took the life: the claw still
\* overlaps the player and the cooldown has run out
C2_StillOverlapping ==
    /\ Playing /\ SinglePlayer /\ pc = "screens"
    /\ pass_hits = 1 /\ claw_has_hit
    /\ check_collision(G)
    /\ clock - last_hit_time > HIT_COOLDOWN

Scores(hs) == [i \in 1..Len(hs) |-> hs[i][2]]

\* C3: after load_high_scores and after every add_high_score the board has
\* at most 3 entries, in descending order of score.
C3_BoardTop3Sorted ==
    /\ Len(high_scores) <= 3
    /\ \A i \in 1..Len(high_scores), j \in 1..Len(high_scores) :
           i < j => high_scores[i][2] >= high_scores[j][2]

\* a score above all of a full board was added and took the first place
C3_NewBest ==
    Len(high_scores) = 3 /\ high_scores[1][2] = 51 /\ high_scores[2][2] = 50

\* the lowest score on a board
MinScore(hs) == CHOOSE m \in {hs[i][2] : i \in 1..Len(hs)} :
                    \A i \in 1..Len(hs) : m <= hs[i][2]

\* C4: is_high_score(s) is true whenever the board has fewer than 3
\* entries; with 3 entries it is true exactly when s is strictly greater
\* than the lowest score on the board, which is the last entry's.
C4_QualifiesIffAboveLowest ==
    \A s \in ScoreInputs :
        /\ Len(high_scores) < 3 => is_high_score(high_scores, s)
        /\ Len(high_scores) = 3 =>
              /\ high_scores[3][2] = MinScore(high_scores)
              /\ is_high_score(high_scores, s) = (s > MinScore(high_scores))

\* a score one above the lowest of a full board was found to qualify
C4_JustAbove ==
    /\ Len(high_scores) = 3 /\ high_scores[1][2] > high_scores[3][2]
    /\ score = high_scores[3][2] + 1 /\ entering_initials

\* C5: with the board holding the scores 50, 30, 10: is_high_score(10) is
\* false, is_high_score(11) true, is_high_score(50) true (50 is strictly
\* greater than the lowest score, 10), is_high_score(51) true.
C5_BoardExample ==
    Scores(high_scores) = <<50, 30, 10>> =>
        /\ ~is_high_score(high_scores, 10)
        /\ is_high_score(high_scores, 11)
        /\ is_high_score(high_scores, 50)
        /\ is_high_score(high_scores, 51)

\* C5 as stated: on that board is_high_score(50) is false
C5_FiftyIsRejected ==
    Scores(high_scores) = <<50, 30, 10>> =>
        /\ ~is_high_score(high_scores, 10)
        /\ is_high_score(high_scores, 11)
        /\ ~is_high_score(high_scores, 50)
        /\ is_high_score(high_scores, 51)

\* on the board 50, 30, 10 the score 50 was found to qualify
C5_FiftyAccepted ==
    Scores(high_scores) = <<50, 30, 10>> /\ score = 50 /\ entering_initials

\* C9: a life loss applied while lives = 1 leaves, in the same step,
\* lives = 0, game_state GAME_OVER (from PLAYING, directly) and the message
\* label showing the game-over text with the current score.
C9_LastLifeEndsSession ==
    [][(lives = 1 /\ lives' < lives) =>
          /\ game_state = "PLAYING"
          /\ lives' = 0
          /\ game_state' = "GAME_OVER"
          /\ message_label' = Msg("GAME OVER", score')]_vars

\* the last life was just taken by a dropped claw
C9_LastLifeTaken ==
    /\ pc = "screens" /\ lives = 0 /\ game_state = "GAME_OVER"
    /\ difficulty = "MULTIPLAYER" /\ pass_hits > 0
    /\ message_label = Msg("GAME OVER", score)

HitAsStated(px, cx, y) ==
    LET center == px + 4
        left == cx + 14
        right == cx + 32
        Near(box) == center >= box - 3 /\ center <= box + 2 + 3
    IN  /\ y >= PLAYER_Y - 2 /\ y <= PLAYER_Y + 4
        /\ (Near(left) \/ Near(right) \/ (center > left + 2 /\ center < right))

\* C11: check_collision is true iff the claw's lowest line is within
\* [PLAYER_Y - 2, PLAYER_Y + 4] and the player's center (player_x + 4) is
\* within 3 px of either grabber's 2-px box (at claw x + 14 and claw x + 32)
\* or strictly between the two grabbers; outside the vertical window it is
\* false for every horizontal alignment.
C11_CollisionIffStated ==
    claw_line3_y # HIDDEN_Y =>
        /\ claw_has_hit = HitAsStated(player_x, claw_x, claw_line3_y)
        /\ check_collision(G) = claw_has_hit
        /\ claw_line3_y \notin (PLAYER_Y - 2)..(PLAYER_Y + 4) => ~claw_has_hit

\* the lowest line at the player's row, the center midway between the
\* grabbers: a hit
C11_CaughtMidway ==
    /\ claw_line3_y = PLAYER_Y /\ player_x + 4 = claw_x + 24 /\ claw_has_hit

\* the arguments C12 is checked on: ranges of either orientation of the
\* outputs, x below, at, inside, at and above the input range
RangeIns == -1..2
RangeOuts == {-3, 0, 2, 5}
RangeXs == -3..4

\* C12: for in_min < in_max, map_range returns out_min for every
\* x <= in_min, out_max for every x >= in_max and a value between out_min
\* and out_max for x inside the range; for in_min = in_max it returns
\* out_min for any x, without dividing.  (map_range is the fraction
\* <<numerator, denominator>>.)  So the claw's x mapped from an aim lies in
\* [0, SCREEN_WIDTH - CLAW_WIDTH], at its ends for aims beyond +-9.
C12_MapRangeClamps ==
    /\ \A x \in RangeXs, in_min \in RangeIns, in_max \in RangeIns,
          out_min \in RangeOuts, out_max \in RangeOuts :
          LET v == map_range(x, in_min, in_max, out_min, out_max)
              lo == IF out_min <= out_max THEN out_min ELSE out_max
              hi == IF out_min <= out_max THEN out_max ELSE out_min
          IN  /\ in_min = in_max => v = <<out_min, 1>>
              /\ in_min < in_max =>
                    /\ v[2] > 0
                    /\ x <= in_min => v[1] = out_min * v[2]
                    /\ x >= in_max => v[1] = out_max * v[2]
                    /\ lo * v[2] <= v[1] /\ v[1] <= hi * v[2]
    /\ opponent_aim_raw.v # 0 =>
          /\ claw_x \in 0..(SCREEN_WIDTH - CLAW_WIDTH)
          /\ opponent_aim_raw.v <= ACCEL_MIN => claw_x = 0
          /\ opponent_aim_raw.v >= ACCEL_MAX => claw_x = SCREEN_WIDTH - CLAW_WIDTH

\* an aim beyond ACCEL_MAX was mapped to the right end
C12_AimBeyondMax ==
    opponent_aim_raw.v > ACCEL_MAX /\ claw_x = SCREEN_WIDTH - CLAW_WIDTH

\* the letter k steps after letter c in A..Z, cyclically
Later(c, k) == ORD_A + ((c - ORD_A + k) % 26)

\* one detent of the encoder (rot_b high: clockwise): a falling edge of
\* rot_a met by the rotation handling of entering_initials
Detent(g, rot_b) ==
    InitialsRotation([g EXCEPT !.rot_last_state = TRUE], FALSE, rot_b)

RECURSIVE Turned(_, _, _)
\* the letter after k detents in one direction
Turned(c, k, rot_b) ==
    IF k = 0 THEN c
    ELSE Turned(IF rot_b THEN NextLetter(c) ELSE PrevLetter(c), k - 1, rot_b)

\* C13: while initials are entered, k clockwise detents at position p
\* change letter p to the letter k steps later in A..Z cyclically (A,A,A
\* with 3 at position 0 gives D,A,A; one step after Z is A) and leave the
\* other two letters unchanged; a counter-clockwise detent is the exact
\* inverse (one step before A is Z), and 26 detents in one direction
\* restore the letter.
C13_LettersCycle ==
    /\ []((entering_initials /\ turns = 0) =>
            \A c \in ORD_A..ORD_Z :
               LET p == initial_index + 1
                   g == [G EXCEPT !.current_initials[p] = c]
               IN  /\ Detent(g, TRUE).current_initials
                         = [g.current_initials EXCEPT ![p] = Later(c, 1)]
                   /\ Detent(g, FALSE).current_initials
                         = [g.current_initials EXCEPT ![p] = Later(c, 25)]
                   /\ Detent(Detent(g, TRUE), FALSE).current_initials
                         = g.current_initials
                   /\ \A k \in {3, 26} :
                         /\ Turned(c, k, TRUE) = Later(c, k)
                         /\ Turned(c, k, FALSE) = Later(c, 25 * k)
                   /\ Turned(c, 26, TRUE) = c /\ Turned(c, 26, FALSE) = c)
    /\ [][(entering_initials /\ current_initials' # current_initials) =>
             LET p == initial_index + 1
             IN  \E k \in {1, 25} :
                    current_initials' =
                       [current_initials EXCEPT ![p] = Later(current_initials[p], k)]]_vars

\* three clockwise detents at position 0 have made A,A,A into D,A,A
C13_ThreeClockwise ==
    /\ entering_initials /\ initial_index = 0 /\ turns = 3
    /\ current_initials = <<ORD_A + 3, ORD_A, ORD_A>>

\* C14: a confirm press in the menu, with any of the four options
\* selected, leaves the menu and yields a Playing session of the selected
\* difficulty with lives = 3, score = 0 and level index 0, whatever the
\* previous session left; the menu is left in no other way.
C14_PressStartsFreshSession ==
    [][/\ (in_menu /\ button_pressed') =>
             /\ ~in_menu' /\ game_state' = "PLAYING"
             /\ difficulty' = DIFFICULTY_OPTIONS[menu_index' + 1]
             /\ lives' = 3 /\ score' = 0 /\ current_level_index' = 0
       /\ (in_menu /\ ~in_menu') => button_pressed']_vars

\* a second session has just started after one that died at level index 1
C14_SecondSessionStarted ==
    /\ sessions = 2 /\ Playing /\ clock = level_start_time
    /\ level_time_target = LEVEL_DATA[2]
    /\ lives = 3 /\ score = 0 /\ current_level_index = 0

Ended == game_state \in {"GAME_OVER", "WIN"}

\* the qualification rule: fewer than 3 entries, or strictly above the
\* lowest score on the board
Qualifies(hs, s) == Len(hs) < 3 \/ s > MinScore(hs)

\* C15: on the tick in which game_state is GAME_OVER or WIN and initials are
\* not being entered, the entry of initials begins iff the score qualifies
\* (fewer than 3 entries on the board, or score above the lowest entry) and
\* otherwise game_state becomes SHOW_HIGH_SCORES; the machine never stays in
\* GAME_OVER / WIN over a tick without one of the two.
C15_EndedGoesOneOfTwoWays ==
    /\ [][(Ended /\ ~entering_initials /\ pc = "screens") =>
             IF Qualifies(high_scores, score)
             THEN entering_initials' /\ initial_index' = 0 /\ game_state' = game_state
             ELSE ~entering_initials' /\ game_state' = "SHOW_HIGH_SCORES"]_vars
    /\ []((Ended /\ ~entering_initials) => pc = "screens")

\* a session ended with a score equal to the lowest of a full board and
\* went to the high-score screen without an entry of initials
C15_TieShown ==
    /\ pc = "sample" /\ ~in_menu /\ game_state = "SHOW_HIGH_SCORES"
    /\ Len(high_scores) = 3 /\ score = high_scores[3][2]

\* C16: while initials are entered, the first two confirm presses move the
\* cursor from position 0 to 1 to 2 without touching the board; the third
\* adds exactly one record, made of the three current letters and the
\* session's score as it was when Playing ended, and moves to
\* SHOW_HIGH_SCORES; the board changes at no other step, the score does not
\* change once Playing has ended, and one session adds at most one record.
C16_ThirdPressCommits ==
    /\ [][(entering_initials /\ pc = "screens" /\ button_pressed) =>
             IF initial_index < 2
             THEN /\ initial_index' = initial_index + 1
                  /\ high_scores' = high_scores /\ records_added' = records_added
                  /\ entering_initials' /\ game_state' = game_state
             ELSE /\ high_scores' =
                        Top3(SortDesc(Append(high_scores, <<current_initials', score>>)))
                  /\ records_added' = records_added + 1
                  /\ ~entering_initials' /\ game_state' = "SHOW_HIGH_SCORES"]_vars
    /\ [][(high_scores' # high_scores \/ records_added' > records_added) =>
             (entering_initials /\ initial_index = 2 /\ button_pressed)]_vars
    /\ [][(~in_menu /\ game_state # "PLAYING") => score' = score]_vars
    /\ [](records_added <= 1)

\* the third press has put the session's score on the board under the
\* letters entered
C16_RecordAdded ==
    /\ records_added = 1 /\ game_state = "SHOW_HIGH_SCORES" /\ ~entering_initials
    /\ initial_index = 3 /\ score > 0
    /\ \E i \in 1..Len(high_scores) : high_scores[i] = <<current_initials, score>>

\* the top-level state of the machine
Top ==
    IF in_menu THEN "Menu"
    ELSE IF game_state = "PLAYING" THEN "Playing"
    ELSE IF game_state = "SHOW_HIGH_SCORES" THEN "ShowHighScores"
    ELSE IF entering_initials THEN "EnteringInitials"
    ELSE "Ended"

TopMoves ==
    { <<"Menu", "Playing">>, <<"Playing", "Ended">>,
      <<"Ended", "EnteringInitials">>, <<"Ended", "ShowHighScores">>,
      <<"EnteringInitials", "ShowHighScores">>, <<"ShowHighScores", "Menu">> }

\* C17: the top-level state only moves along Menu -> Playing -> GameOver/Win
\* -> (EnteringInitials ->) ShowHighScores -> Menu; Playing is entered only
\* by a confirm press in Menu, Menu is re-entered only by a confirm press in
\* ShowHighScores, so every ended session passes through ShowHighScores
\* before the menu is shown again.
C17_TopLevelCycle ==
    [][Top' # Top =>
          /\ <<Top, Top'>> \in TopMoves
          /\ Top' = "Playing" => button_pressed'
          /\ Top' = "Menu" => button_pressed]_vars

\* the menu is shown again after a session that entered its initials
C17_BackInMenu ==
    in_menu /\ sessions = 1 /\ records_added = 1 /\ pc = "sample"

\* C18: confirm-pressed is true in a tick iff the button sample was high on
\* the previous tick and is low now, so a button held low yields one edge;
\* every move into or out of the menu and every step of the entry of
\* initials takes an edge, and the tick after an edge has none: a single
\* press causes at most one transition (the third initials press does not
\* also leave SHOW_HIGH_SCORES, the press that leaves it does not also start
\* a game).
C18_OneEdgePerPress ==
    /\ [][pc = "sample" =>
             button_pressed' = (last_btn_state /\ ~last_btn_state')]_vars
    /\ [][(pc = "sample" /\ (button_pressed \/ ~last_btn_state)) =>
             ~button_pressed']_vars
    /\ [][(Top' # Top /\ (Top' \in {"Menu", "Playing"} \/ Top = "EnteringInitials")) =>
             button_pressed']_vars
    /\ [][initial_index' # initial_index =>
             (button_pressed' \/ (Top = "Ended" /\ initial_index' = 0))]_vars
    /\ [](button_pressed => ~last_btn_state)

\* the third press of an entry has put the record on the board and the
\* high-score screen is still shown at the end of that tick
C18_ThirdPressStays ==
    /\ pc = "sample" /\ button_pressed /\ records_added = 1
    /\ game_state = "SHOW_HIGH_SCORES" /\ ~in_menu

\* C19: in every reachable state multiplayer_active is true only if the
\* difficulty is MULTIPLAYER and the machine is not in the menu, and it is
\* true iff a UART handle is held; after a start of EASY, MEDIUM or HARD
\* and in the menu the channel is torn down, whatever the previous session
\* was.
C19_LinkOnlyInMultiplayer ==
    /\ multiplayer_active => (difficulty = "MULTIPLAYER" /\ ~in_menu)
    /\ multiplayer_active <=> uart
    /\ (in_menu \/ SinglePlayer) => (~uart /\ ~multiplayer_active)

\* a single-player session runs after a Multiplayer session whose link had
\* sent the player's position
C19_SingleAfterMultiplayer ==
    /\ sessions = 2 /\ Playing /\ SinglePlayer
    /\ last_player_x = player_x /\ ~uart /\ ~multiplayer_active

\* int(map_range(aim, -9, 9, 0, SCREEN_WIDTH - CLAW_WIDTH)) of an aim in 1/10 m/s^2
AimedX(a) ==
    LET b == IF a < ACCEL_MIN THEN ACCEL_MIN ELSE IF a > ACCEL_MAX THEN ACCEL_MAX ELSE a
    IN  ((SCREEN_WIDTH - CLAW_WIDTH) * (b - ACCEL_MIN)) \div (ACCEL_MAX - ACCEL_MIN)

\* what C20 says of the claw, in a state of a Multiplayer session
ClawFollowsAim ==
    /\ claw_x \in 0..(SCREEN_WIDTH - CLAW_WIDTH)
    /\ (pc = "screens" /\ ~opponent_aim_raw.nan) => claw_x = AimedX(opponent_aim_raw.v)
    /\ claw_y_offset = CLAW_RESET_Y

FirstErr(buf) ==
    IF \E i \in 1..Len(buf) : buf[i].kind = "ERR"
    THEN CHOOSE i \in 1..Len(buf) :
            /\ buf[i].kind = "ERR"
            /\ \A j \in 1..(i - 1) : buf[j].kind # "ERR"
    ELSE Len(buf) + 1

\* the lines a call of process_uart has received from a UART holding buf
Received(buf) == SubSeq(buf, 1, FirstErr(buf) - 1)

\* the payload of the last AIM:<float> line among lines, old when there is none
LastAim(lines, old) ==
    IF \E i \in 1..Len(lines) : lines[i].kind = "AIM"
    THEN LET i == CHOOSE k \in 1..Len(lines) :
                     /\ lines[k].kind = "AIM"
                     /\ \A j \in (k + 1)..Len(lines) : lines[j].kind # "AIM"
         IN  [nan |-> lines[i].nan, v |-> lines[i].v]
    ELSE old

HasFire(lines) == \E i \in 1..Len(lines) : lines[i].kind = "FIRE"

\* C21: after process_uart has run on the lines it received, opponent_aim_raw
\* is the payload of the last well-formed AIM:<float> line among them
\* (unchanged if there is none) and fire_flag is its old value OR (some line
\* is exactly FIRE:1); earlier AIM values have no effect.
C21_LastAimAndFireOr ==
    [][(pc' = "sample" /\ uart_reads' > 0) =>
          LET got == Received(rx')
          IN  /\ opponent_aim_raw' = LastAim(got, opponent_aim_raw)
              /\ fire_flag' = (fire_flag \/ HasFire(got))]_vars

\* a call has found two AIM lines and kept the second, the flag raised by
\* an earlier call still up
C21_SecondAimKept ==
    /\ rx = <<Line("AIM", FALSE, 37), Line("AIM", FALSE, -200)>>
    /\ opponent_aim_raw = [nan |-> FALSE, v |-> -200] /\ fire_flag

Linked == difficulty = "MULTIPLAYER" /\ multiplayer_active

\* C22: a drop starts only in a tick of a linked session that is PLAYING
\* and has drained a FIRE:1 line, and the flag is clear when the drop has
\* returned; any number k >= 1 of FIRE:1 lines drained in one tick cause
\* exactly one drop, the lines that arrived while a drop blocked the loop
\* are drained on the next tick and cause one further drop, and a flag left
\* set by an ended session starts no drop in a later session (a session
\* that is Playing starts its ticks with the flag clear, or has no link).
C22_OneDropPerFiringTick ==
    /\ [][(pc = "sample" /\ drops' > 0) =>
             /\ Playing /\ Linked
             /\ HasFire(Received(rx'))
             /\ drops' = 1 /\ ~fire_flag']_vars
    /\ [][(pc = "sample" /\ Playing /\ Linked /\ pc' = "screens"
           /\ HasFire(Received(rx'))) => drops' = 1]_vars
    /\ []((pc = "sample" /\ Playing /\ Linked) => ~fire_flag)
    /\ [][(pc = "sample" /\ Playing /\ ~Linked) => drops' = 0]_vars

\* a session whose UART failed to open is Playing with the flag still up
\* from the FIRE:1 lines received after the previous session had ended,
\* and its tick has started no drop
C22_StaleFlagNoDrop ==
    /\ sessions = 2 /\ Playing /\ difficulty = "MULTIPLAYER" /\ ~multiplayer_active
    /\ pc = "screens" /\ fire_flag /\ drops = 0 /\ clock > level_start_time
    /\ last_hit_time > CALIB_DURATION

\* C23: in a Multiplayer session each call of drop_claw_multiplayer takes
\* at most one life, a tick takes at most one life, and the time stored
\* with a life loss is more than HIT_COOLDOWN = 0.5 s after the time stored
\* with the life loss before it.
C23_OneLifePerDrop ==
    /\ [][(pc = "sample" /\ difficulty = "MULTIPLAYER" /\ drops' > 0) =>
             (drops' = 1 /\ lives' >= lives - 1)]_vars
    /\ [][(difficulty = "MULTIPLAYER" /\ ~in_menu /\ lives' < lives) =>
             /\ lives' = lives - 1
             /\ last_hit_time' - last_hit_time > HIT_COOLDOWN
             /\ Linked => (drops' = 1 /\ last_hit_time' = clock' - DropTail)]_vars

\* the second drop of a session has taken the second life, a drop and a
\* tick after the first
C23_SecondDropHit ==
    /\ Linked /\ Playing /\ pc = "screens" /\ drops = 1 /\ lives = 1
    /\ last_hit_time = clock - DropTail
    /\ clock - level_start_time = 2 * (4 + DropHitDelay + DropTail)

\* C24: send_player_position writes P:<player_x> in a tick iff the link is
\* active and player_x differs from the stored last-sent value
\* (last_player_x; 0 until the first write succeeds); after a successful
\* write the stored value equals player_x, after a failed write and in a
\* tick without write it is unchanged, so two consecutive P messages
\* written never carry the same position.
C24_SendOnChangeOnly ==
    [][(pc = "sample" /\ ~in_menu) =>
          /\ (tx' # "none") <=>
                (multiplayer_active /\ uart /\ player_x' # last_player_x)
          /\ tx' = "sent" =>
                /\ last_player_x' = player_x' /\ last_sent' = player_x'
                /\ last_sent' # last_sent
          /\ tx' # "sent" =>
                (last_player_x' = last_player_x /\ last_sent' = last_sent)]_vars

\* a position was sent, the player moved on and the write of the new
\* position failed: the stored value is still the one sent
C24_FailedWriteKeepsLast ==
    /\ Linked /\ pc = "screens" /\ tx = "failed"
    /\ last_sent = last_player_x /\ last_sent >= 1 /\ player_x # last_player_x

\* C25: process_uart ends on every finite receive buffer: it makes at most
\* (number of buffered lines + 1) reads, the last of them the first read
\* that returns nothing or raises, and makes no read at all when the link
\* is inactive.
C25_DrainIsBounded ==
    /\ uart_reads <= Len(rx) + 1
    /\ uart_reads > 0 => uart_reads = FirstErr(rx)
    /\ (~multiplayer_active \/ ~uart) => (uart_reads = 0 /\ rx = <<>>)

\* the first read of a call raised: one read was made and the FIRE:1 line
\* behind it was not received
C25_StoppedAtReadError ==
    /\ rx = <<Line("ERR", FALSE, 0), Line("FIRE", FALSE, 0)>>
    /\ uart_reads = 1 /\ ~fire_flag /\ multiplayer_active

\* the lines of a call that process_uart acts on
WellFormed(lines) ==
    SelectSeq(lines, LAMBDA l : l.kind \in {"AIM", "FIRE"})

\* C26: a received line that fails to decode, whose AIM payload is not a
\* number, or that has any other prefix leaves opponent_aim_raw and
\* fire_flag unchanged and does not stop the drain: the call ends as it
\* would have on the well-formed lines alone, every received line having
\* been read.
C26_MalformedLinesIgnored ==
    [][(pc' = "sample" /\ uart_reads' > 0) =>
          LET got == Received(rx')
              good == WellFormed(got)
          IN  /\ opponent_aim_raw' = LastAim(good, opponent_aim_raw)
              /\ fire_flag' = (fire_flag \/ HasFire(good))
              /\ good = <<>> =>
                    (opponent_aim_raw' = opponent_aim_raw /\ fire_flag' = fire_flag)
              /\ uart_reads' >= Len(got)]_vars

\* after undecodable bytes the AIM line behind them was applied
C26_AimAfterGarbage ==
    /\ rx = <<Line("UNDEC", FALSE, 0), Line("AIM", FALSE, 37)>>
    /\ uart_reads = 3 /\ opponent_aim_raw = [nan |-> FALSE, v |-> 37]

\* the offset past which a pass is complete: PLAYER_Y + 8 = 60 px, in 1/20 px
PassEnd == (PLAYER_Y + 8) * 20

\* C27: in single-player Playing a pass completes exactly on the tick where
\* claw_y_offset becomes strictly greater than PLAYER_Y + 8 = 60 (an offset
\* of exactly 60 does not complete it); on that tick score goes up by 1
\* iff the hit flag is clear, then the offset is CLAW_RESET_Y = -10, the
\* hit flag is clear and the new claw x lies in
\* [-10, SCREEN_WIDTH - CLAW_WIDTH + 10] = [-10, 98]; on every other tick
\* the score is unchanged and the offset has grown by claw_speed (or a
\* level advance has respawned the claw).
C27_PassCompletesPastMargin ==
    /\ [][(pc = "sample" /\ Playing /\ SinglePlayer) =>
             IF claw_y_offset + claw_speed > PassEnd
             THEN /\ score' = score + (IF claw_has_hit THEN 0 ELSE 1)
                  /\ claw_y_offset' = CLAW_RESET_Y /\ ~claw_has_hit'
                  /\ claw_x' \in (-10)..(SCREEN_WIDTH - CLAW_WIDTH + 10)
             ELSE /\ score' = score
                  /\ \/ claw_y_offset' = claw_y_offset + claw_speed
                     \/ /\ current_level_index' = current_level_index + 1
                        /\ claw_y_offset' = CLAW_RESET_Y]_vars
    /\ []((Playing /\ SinglePlayer) =>
            LET at == SinglePlayerClaw(
                         [G EXCEPT !.claw_y_offset = PassEnd - claw_speed], 0)
                past == SinglePlayerClaw(
                         [G EXCEPT !.claw_y_offset = PassEnd - claw_speed + 1], 0)
            IN  /\ at.claw_y_offset = PassEnd /\ at.score = score
                /\ past.claw_y_offset = CLAW_RESET_Y
                /\ past.score = score + (IF claw_has_hit THEN 0 ELSE 1))

\* a pass that took a life has ended without a point and the claw has
\* respawned at the left end of the range
C27_HitPassRespawned ==
    /\ Playing /\ SinglePlayer /\ pc = "screens"
    /\ claw_y_offset = CLAW_RESET_Y /\ claw_x = -10 /\ ~claw_has_hit
    /\ lives = 2 /\ score = 0 /\ clock > level_start_time

\* C28 as stated: in single-player the score goes up at the end of a pass
\* only if check_collision was true at no tick of that pass.
C28_NoPointForOverlappedPass ==
    [][(pc = "sample" /\ Playing /\ SinglePlayer /\ score' > score) =>
          ~pass_overlap]_vars

\* C29: in a non-Multiplayer session the level index stays in 0..9 and
\* changes only by an advance of exactly 1, made while Playing when the
\* level's time target has elapsed; the advance resets the level start
\* time, respawns the claw and keeps the session Playing; WIN is reached
\* only from level index 9 when its time target has elapsed.
C29_LevelsAdvanceByOne ==
    /\ [](SinglePlayer => current_level_index \in 0..(Len(LEVEL_DATA) - 1))
    /\ [][(SinglePlayer /\ ~in_menu /\ current_level_index' # current_level_index) =>
             /\ current_level_index' = current_level_index + 1
             /\ Playing /\ game_state' = "PLAYING" /\ ~in_menu'
             /\ clock' - level_start_time >= level_time_target
             /\ level_start_time' = clock'
             /\ level_time_target' = LEVEL_DATA[current_level_index' + 1]
             /\ claw_y_offset' = CLAW_RESET_Y /\ ~claw_has_hit']_vars
    /\ [][(SinglePlayer /\ ~in_menu /\ game_state' = "WIN" /\ game_state # "WIN") =>
             /\ Playing
             /\ current_level_index = Len(LEVEL_DATA) - 1
             /\ current_level_index' = current_level_index
             /\ clock' - level_start_time >= level_time_target
             /\ level_time_target = LEVEL_DATA[Len(LEVEL_DATA)]]_vars

\* the tenth level's 10 s have elapsed and the session has been won
C29_WonAtLastLevel ==
    /\ SinglePlayer /\ ~in_menu /\ game_state = "WIN" /\ pc = "screens"
    /\ current_level_index = Len(LEVEL_DATA) - 1
    /\ clock - level_start_time = LEVEL_DATA[Len(LEVEL_DATA)]
    /\ message_label = Msg("YOU WIN!", score)

FallingEdge == rot_last_state /\ ~rot_last_state'

\* C31 (amended): in the menu and while initials are entered a step is
\* emitted exactly on the ticks where rot_a is sampled low and the stored
\* level is high; the step is towards the next option or letter when rot_b
\* is high and towards the previous one when it is low, one step per tick;
\* a change of rot_a from low to high only stores the new level.
C31_StepOnFallingEdge ==
    /\ []((in_menu /\ pc = "sample") =>
            \A a \in BOOLEAN, b \in BOOLEAN :
               LET g == MenuRotation(G, a, b)
               IN  /\ g.rot_last_state = a
                   /\ g.menu_index =
                         IF rot_last_state /\ ~a
                         THEN (IF b THEN (menu_index + 1) % 4
                               ELSE (menu_index + 3) % 4)
                         ELSE menu_index)
    /\ []((entering_initials /\ pc = "screens") =>
            \A a \in BOOLEAN, b \in BOOLEAN :
               LET g == InitialsRotation(G, a, b)
                   p == initial_index + 1
               IN  /\ g.rot_last_state = a
                   /\ g.current_initials =
                         IF rot_last_state /\ ~a
                         THEN [current_initials EXCEPT
                                 ![p] = Later(current_initials[p],
                                              IF b THEN 1 ELSE 25)]
                         ELSE current_initials)
    /\ [][(in_menu /\ pc = "sample") =>
             (menu_index' # menu_index <=> FallingEdge)]_vars
    /\ [][entering_initials =>
             (current_initials' # current_initials <=> FallingEdge)]_vars

\* C31 as stated: a step on every tick where the sampled level of rot_a
\* differs from the stored level.
C31_StepOnEveryChange ==
    /\ [][(in_menu /\ pc = "sample" /\ rot_last_state' # rot_last_state) =>
             menu_index' # menu_index]_vars
    /\ [][(entering_initials /\ rot_last_state' # rot_last_state) =>
             current_initials' # current_initials]_vars

\* one counter-clockwise detent has made the first letter Z
C31_OneStepBack ==
    /\ entering_initials /\ initial_index = 0 /\ turns = 1
    /\ current_initials = <<ORD_Z, ORD_A, ORD_A>> /\ ~rot_last_state

\* C32: in the menu menu_index stays in 0..3; a step moves it by exactly
\* one position modulo 4, wrapping both ways (3 + 1 gives 0, 0 - 1 gives
\* 3), and it moves in no other way; a confirm press starts exactly the
\* difficulty DIFFICULTY_OPTIONS[menu_index].
C32_MenuIndexCyclesAndSelects ==
    /\ [](menu_index \in 0..3)
    /\ []((in_menu /\ pc = "sample") =>
            \A i \in 0..3 :
               LET g == [G EXCEPT !.menu_index = i, !.rot_last_state = TRUE]
                   up == MenuRotation(g, FALSE, TRUE).menu_index
                   down == MenuRotation(g, FALSE, FALSE).menu_index
               IN  /\ up = (IF i = 3 THEN 0 ELSE i + 1)
                   /\ down = (IF i = 0 THEN 3 ELSE i - 1)
                   /\ MenuRotation(g, TRUE, TRUE).menu_index = i)
    /\ [][menu_index' # menu_index =>
             /\ in_menu /\ pc = "sample" /\ rot_last_state /\ ~rot_last_state'
             /\ \/ menu_index' = (IF menu_index = 3 THEN 0 ELSE menu_index + 1)
                \/ menu_index' = (IF menu_index = 0 THEN 3 ELSE menu_index - 1)]_vars
    /\ [][(in_menu /\ ~in_menu') =>
             /\ last_btn_state /\ ~last_btn_state'
             /\ difficulty' = DIFFICULTY_OPTIONS[menu_index' + 1]
             /\ game_state' = "PLAYING" /\ sessions' = sessions + 1]_vars
    /\ [][(in_menu /\ pc = "sample" /\ last_btn_state /\ ~last_btn_state') =>
             ~in_menu']_vars

\* the fourth option was selected and confirmed: a Multiplayer session runs
C32_LastOptionStarted ==
    /\ ~in_menu /\ menu_index = 3 /\ difficulty = "MULTIPLAYER"
    /\ game_state = "PLAYING" /\ sessions = 1

\* C33: when the accelerometer read fails in a tick the tilt is taken as
\* 0: PLAYER MOVEMENT leaves player_x and everything else as they were,
\* whatever ax held before, as a read of 0 does; the tick goes on to its
\* end, and the claw of a running single-player session moves on by
\* claw_speed or respawns.  (In SpecMove a tick away from the screen edges
\* that leaves player_x unchanged is a tick whose read failed.)
C33_FailedReadIsNoTilt ==
    /\ []((~in_menu /\ pc = "sample") =>
            /\ \A ax \in {-1000, 0, 37, 1000} :
                  PlayerMovement(G, Tilt(FALSE, ax)) = G
            /\ PlayerMovement(G, Tilt(TRUE, 0)) = G)
    /\ [][(/\ ~in_menu /\ pc = "sample"
           /\ player_x > 0 /\ player_x < SCREEN_WIDTH - PLAYER_WIDTH
           /\ player_x' = player_x) =>
             /\ pc' = "screens"
             /\ (game_state = "PLAYING" /\ ~multiplayer_active) =>
                   /\ clock' > clock
                   /\ \/ claw_y_offset' = claw_y_offset + claw_speed
                      \/ claw_y_offset' = CLAW_RESET_Y
                   /\ lives' \in {lives, lives - 1}]_vars

\* the first tick of a session has left the player where it stood (of the
\* samples of SpecMove only a failed read does) and moved the claw
C33_StoodStillOneTick ==
    /\ pc = "screens" /\ game_state = "PLAYING" /\ difficulty = "HARD"
    /\ clock = level_start_time + 4 /\ player_x = SCREEN_WIDTH \div 2
    /\ claw_y_offset = CLAW_RESET_Y + claw_speed

\* the three records load_high_scores falls back to
Placeholders == <<<<AAA, 0>>, <<AAA, 0>>, <<AAA, 0>>>>

\* the records of the file's lines, in file order
FileRecords(file) ==
    SelectSeq(file.lines, LAMBDA l : l.kind = "rec")

\* C34: load_high_scores yields at most 3 records sorted descending by
\* score when the file parses (the records of the file with the highest
\* scores), and exactly three ("AAA", 0) records when the file is missing
\* or a score field is not an integer; it yields a board for every file,
\* and with the three ("AAA", 0) records in place a score of 0 does not
\* qualify.
C34_LoadTop3OrPlaceholders ==
    /\ [](LET recs == FileRecords(hs_file)
              bad == \E i \in 1..Len(hs_file.lines) :
                        hs_file.lines[i].kind = "badint"
          IN  /\ (hs_file.exists /\ ~bad) =>
                    /\ Len(high_scores) = (IF Len(recs) > 3 THEN 3 ELSE Len(recs))
                    /\ \A i \in 1..Len(high_scores), j \in 1..Len(high_scores) :
                          i < j => high_scores[i][2] >= high_scores[j][2]
                    /\ \A i \in 1..Len(high_scores) :
                          \E k \in 1..Len(recs) :
                             high_scores[i] = <<recs[k].initials, recs[k].score>>
                    /\ \A k \in 1..Len(recs) :
                          Len(high_scores) = 3 =>
                             recs[k].score <= high_scores[1][2]
                    /\ \A s \in {10, 30, 50} :
                          Cardinality({i \in 1..Len(high_scores) : high_scores[i][2] > s})
                             = (LET n == Cardinality({k \in 1..Len(recs) : recs[k].score > s})
                                IN  IF n > 3 THEN 3 ELSE n)
              /\ (~hs_file.exists \/ bad) => high_scores = Placeholders
              /\ high_scores = Placeholders => ~is_high_score(high_scores, 0))
    /\ [][(high_scores = Placeholders /\ score' = 0) => ~entering_initials']_vars

\* a file whose last score is not an integer left the placeholder board,
\* on which is_high_score was applied and let a score of 1 qualify
C34_CorruptFileLoaded ==
    /\ hs_file.exists /\ Len(hs_file.lines) = 3
    /\ hs_file.lines[1].kind = "rec" /\ hs_file.lines[3].kind = "badint"
    /\ high_scores = Placeholders /\ score = 1 /\ entering_initials

\* C35: in every reachable state entering_initials implies that game_state
\* is GAME_OVER or WIN, that in_menu is false and that initial_index is in
\* 0..2; so in_menu and entering_initials are never both true, and
\* initials are never entered while game_state is PLAYING.
C35_InitialsOnlyAfterEnd ==
    /\ entering_initials =>
          /\ game_state \in {"GAME_OVER", "WIN"}
          /\ ~in_menu
          /\ initial_index \in 0..2
    /\ ~(in_menu /\ entering_initials)
    /\ ~(entering_initials /\ game_state = "PLAYING")

\* the third initial is being entered after a lost session
C35_ThirdInitialAfterGameOver ==
    /\ entering_initials /\ initial_index = 2 /\ game_state = "GAME_OVER"
    /\ ~in_menu /\ score > 0

\* now of the tick just taken: a drop moves the clock on by its sleeps
TickNow == IF drops' > 0 THEN clock' - DropHitDelay - DropTail ELSE clock'

\* the tick just taken took the last life, and its TIMER UPDATE found the
\* time target of the level or round reached
LastLifeAtTarget ==
    /\ pc = "sample" /\ ~in_menu /\ game_state = "PLAYING"
    /\ lives = 1 /\ lives' = 0
    /\ level_time_target - (TickNow - level_start_time) <= 0

\* C36: when the last life is lost in the tick in which the level or round
\* time target is reached, the session ends in GAME_OVER: no level advance
\* and no WIN is applied in that tick, nor in any later tick of a session
\* that has no life left.
C36_LastLifeBeatsTarget ==
    /\ [][LastLifeAtTarget =>
             /\ game_state' = "GAME_OVER"
             /\ current_level_index' = current_level_index
             /\ level_time_target' = level_time_target
             /\ level_start_time' = level_start_time]_vars
    /\ [][(~in_menu /\ lives = 0 /\ sessions' = sessions) =>
             /\ lives' = 0 /\ game_state' # "WIN"
             /\ (game_state' = "PLAYING" => in_menu')
             /\ current_level_index' = current_level_index
             /\ level_time_target' = level_time_target]_vars

\* a HARD session lost its last life on the tick that reached the time
\* target of the level and stands at GAME_OVER on the same level
C36_LostOnTheLastTick ==
    /\ difficulty = "HARD" /\ game_state = "GAME_OVER" /\ lives = 0
    /\ pc = "screens" /\ clock = last_hit_time
    /\ level_time_target - (clock - level_start_time) <= 0
    /\ current_level_index = 0

\* how often record e stands on board hs
Count(hs, e) == Cardinality({i \in 1..Len(hs) : hs[i] = e})

\* board after is board before with record new added and, if dropped is a
\* record, one copy of dropped taken away
AddedAndDropped(before, after, new, dropped) ==
    \A e \in {before[i] : i \in 1..Len(before)} \cup {new} :
        Count(after, e) = Count(before, e)
                          + (IF e = new THEN 1 ELSE 0)
                          - (IF <<e>> = dropped THEN 1 ELSE 0)

\* C37: when the third press calls add_high_score, the new (initials,
\* score) record is on the board afterwards and at most one earlier record,
\* one with the lowest score, has left it; high_scores changes at no other
\* point after startup, so a session whose score does not qualify leaves
\* the board as it was.
C37_OnlyTheCommitChangesTheBoard ==
    /\ [][records_added' > records_added =>
             LET new == <<current_initials', score>>
             IN  /\ entering_initials /\ Qualifies(high_scores, score)
                 /\ \E i \in 1..Len(high_scores') : high_scores'[i] = new
                 /\ IF Len(high_scores) < 3
                    THEN /\ Len(high_scores') = Len(high_scores) + 1
                         /\ AddedAndDropped(high_scores, high_scores', new, <<>>)
                    ELSE /\ Len(high_scores') = 3
                         /\ \E i \in 1..3 :
                               /\ high_scores[i][2] = MinScore(high_scores)
                               /\ AddedAndDropped(high_scores, high_scores',
                                                  new, <<high_scores[i]>>)]_vars
    /\ [][high_scores' # high_scores => records_added' > records_added]_vars
    /\ [][(/\ pc = "screens" /\ ~entering_initials
           /\ game_state \in {"GAME_OVER", "WIN"}
           /\ ~Qualifies(high_scores, score)) =>
             /\ high_scores' = high_scores /\ ~entering_initials'
             /\ game_state' = "SHOW_HIGH_SCORES"]_vars
    /\ []((sessions <= 1 /\ records_added = 0) =>
             high_scores = load_high_scores(hs_file))

\* a record was added to the full placeholder board: it stands first and
\* two of the three ("AAA", 0) records remain
C37_OnePlaceholderLeft ==
    /\ records_added = 1 /\ ~hs_file.exists /\ score > 0
    /\ high_scores = <<<<current_initials, score>>, <<AAA, 0>>, <<AAA, 0>>>>

\* the claw speeds a single-player pass can have, in 1/20 px per tick:
\* 3, 3.4 or 3.8 at level 0 and 3 + 0.25 * i at level i in 1..9
PassSpeeds ==
    {INITIAL_CLAW_SPEED, INITIAL_CLAW_SPEED + 8, INITIAL_CLAW_SPEED + 16}
    \cup {INITIAL_CLAW_SPEED + CLAW_SPEED_STEP * i : i \in 1..9}

\* C38: in single-player the claw speed is one of PassSpeeds, and every
\* pass that runs from offset -10 to beyond 60 has had at least one tick
\* at which the claw's lowest line lay in the vertical hit window
\* [PLAYER_Y - 2, PLAYER_Y + 4]: no pass steps over the player's row
\* without a collision check inside the window.
C38_EveryPassMeetsTheWindow ==
    /\ []((Playing /\ SinglePlayer) => claw_speed \in PassSpeeds)
    /\ [][(/\ pc = "sample" /\ Playing /\ SinglePlayer
           /\ claw_y_offset + claw_speed > PassEnd) => pass_window]_vars
    /\ [][(/\ pc = "sample" /\ Playing /\ SinglePlayer
           /\ claw_y_offset < (PLAYER_Y - 2 - CLAW_Y3_BASE) * 20
           /\ claw_y_offset' # CLAW_RESET_Y) =>
             claw_y_offset' < (PLAYER_Y + 5 - CLAW_Y3_BASE) * 20]_vars
    /\ [](pass_window =>
             claw_y_offset >= (PLAYER_Y - 2 - CLAW_Y3_BASE) * 20)

\* a pass of the last level, at 3 + 0.25 * 9 = 5.25 px per tick, is past
\* the hit window and has met it
C38_FastestPassMetWindow ==
    /\ Playing /\ SinglePlayer /\ current_level_index = 9
    /\ claw_speed = INITIAL_CLAW_SPEED + CLAW_SPEED_STEP * 9
    /\ claw_line3_y > PLAYER_Y + 4 /\ pass_window

\* a drop with the opponent's aim at a meets the player: check_collision
\* holds at one of the steps 0..DROP_STEPS of the drop animation, the claw
\* standing where line 1611 maps the aim
DropMeetsPlayer(a) ==
    LET g == [G EXCEPT !.opponent_aim_raw = [nan |-> FALSE, v |-> a]]
        g1 == [g EXCEPT !.claw_x = AimedClawX(g)]
    IN  /\ g1.claw_x \in 0..(SCREEN_WIDTH - CLAW_WIDTH)
        /\ \E step \in 0..DROP_STEPS :
              check_collision(set_claw_y(g1, step * DROP_STEP_PIXELS))

\* C39 as stated: in a Multiplayer session with the link active, wherever
\* the player stands in [0, 120] there is an opponent aim whose mapped claw
\* position in [0, 88] makes a drop hit the player; no player position is
\* immune to the claw.
C39_NoPositionImmune ==
    (Linked /\ Playing /\ pc = "sample") =>
        /\ player_x \in 0..(SCREEN_WIDTH - PLAYER_WIDTH)
        /\ \E a \in RangeAims : DropMeetsPlayer(a)

\* C40: with the iterations following one another and the clock advancing,
\* every session that is Playing eventually leaves Playing for GAME_OVER
\* or WIN, a session that is not Multiplayer within its ten level periods
\* (while it is Playing the level index is in 0..9 and less than the
\* level's time target has elapsed since the level began); and the
\* iteration that ends in GAME_OVER or WIN goes on, without any input, to
\* the entry of initials or to SHOW_HIGH_SCORES.
C40_PlayingEnds ==
    /\ (~in_menu /\ game_state = "PLAYING") ~> Ended
    /\ []((Playing /\ SinglePlayer /\ ~in_menu) =>
             /\ current_level_index \in 0..(Len(LEVEL_DATA) - 1)
             /\ clock - level_start_time < level_time_target)
    /\ [][(~in_menu /\ game_state = "PLAYING" /\ game_state' # "PLAYING") =>
             (Ended' /\ pc' = "screens")]_vars
    /\ [][(Ended /\ ~entering_initials) =>
             (pc = "screens" /\ (entering_initials' \/ game_state' = "SHOW_HIGH_SCORES"))]_vars
    /\ (Ended /\ ~entering_initials) ~>
          (entering_initials \/ game_state = "SHOW_HIGH_SCORES")

\* a HARD session has come through all ten levels, 108 s after its start,
\* and the same iteration has gone on to the entry of initials
C40_WonAndEntering ==
    /\ difficulty = "HARD" /\ game_state = "WIN" /\ entering_initials
    /\ pc = "sample" /\ current_level_index = Len(LEVEL_DATA) - 1
    /\ clock = CALIB_DURATION + 6912 /\ lives = 3

====
